---- MODULE Spec2Model ----
(***************************************************************************)
(* Model of the YM song player of rust-ym-file-parser: the YmSong frame    *)
(* producer (src/src/ym/player.rs), the special-effect units and the event *)
(* mixer (src/src/ym/effects.rs), the control-flag decoding                *)
(* (src/src/ym/flags.rs) and the frame accessors (src/src/ym.rs).          *)
(*                                                                         *)
(* Time.  The source computes timestamps in f32 chip cycles:               *)
(*   frame_cycles      = chipset_frequency / frame_frequency               *)
(*   timer_interval(d) = chipset_frequency * d / MFP_TIMER_FREQUENCY       *)
(* The model keeps every time value multiplied by the common factor        *)
(*   MFP_TIMER_FREQUENCY * frame_frequency / chipset_frequency             *)
(* so that both are exact integers: frame_cycles becomes                   *)
(* MFP_TIMER_FREQUENCY and timer_interval(d) becomes d * frame_frequency.  *)
(* Sums, differences, comparisons and remainders of times are unchanged by *)
(* the common factor.  Arithmetic is exact; f32 rounding is not modelled.  *)
(***************************************************************************)
EXTENDS Integers, Sequences, FiniteSets, TLC

(* ---- bounds of the model ---- *)
MaxFrames == 2
MaxCalls == 3
MaxTicks == 64

(* ---- program constants ---- *)
MAX_DD_SAMPLES == 32
MFP_TIMER_FREQUENCY == 2457600
DEFAULT_CHIPSET_FREQUENCY == 2000000
DEFAULT_FRAME_FREQUENCY == 50
MIXER_REG == 7
VOL_A_REG == 8
VOL_B_REG == 9
VOL_C_REG == 10
ENV_PER_FINE_REG == 11
ENV_PER_COARSE_REG == 12
ENV_REG == 13
SINUS_SID_PERIOD == 8
SINUS_SID_MASK == SINUS_SID_PERIOD - 1

YM2_SAMPLE_ENDS ==
  <<  631,  1262,  1752,  2242,  2941,  3446,  4173,  4653,
     6761, 10992, 11370, 12897, 13155, 13413, 13864, 15659,
    15930, 16563, 17942, 18089, 18228, 18313, 18463, 18970,
    19200, 19320, 19591, 19884, 20275, 20666, 21057, 21464,
    21871, 22278, 22595, 23002, 23313, 23772, 24101, 24757 >>

\* SINUS_SID[n] = ((x.cos() * 0.5 + 0.5) * 255.0).round() as u8 with
\* x = 2.0 * PI * n / 8 evaluated in f32, n = 0..7 (cos(PI/2) is -4.4e-8 in f32,
\* cos(3*PI/2) is 1.2e-8, so entries 2 and 6 round to 127 and 128)
SINUS_SID == << 255, 218, 127, 37, 0, 37, 128, 218 >>

\* length in bytes of resources/ym2_samples4bit.bin (two 4-bit samples a byte)
YM2_SAMPLES_4BIT_LEN == 12379

YmVersions == {"Ym2", "Ym3", "Ym4", "Ym5", "Ym6"}

(* ---- state ---- *)
VARIABLES
  version,            \* YmSong::version
  chipset_frequency,  \* YmSong::chipset_frequency
  frame_frequency,    \* YmSong::frame_frequency
  loop_frame,         \* YmSong::loop_frame
  frames,             \* YmSong::frames
  dd_samples,         \* YmSong::dd_samples
  dd_samples_ends,    \* YmSong::dd_samples_ends
  cursor,             \* YmSong::cursor
  voice_effects,      \* YmSong::voice_effects, voices 0..2
  buzzer,             \* YmSong::buzzer
  events,             \* what the last produce_next_ay_frame handed to rec, in order
  ret,                \* what the last produce_next_ay_frame returned
  played,             \* the cursor the last produce_next_ay_frame played (-1: none yet)
  dispatched,         \* voice_effects, buzzer and the effects started, of the last
                      \* call after its version dispatch
  ncalls,             \* produce_next_ay_frame calls since construction
  run,                \* consecutive calls made since a call last started at cursor = 0
  panicked,           \* a call hit a panic (failed assertion, index out of range)
  since_reset,        \* calls of produce_next_ay_frame since reset() or construction
  hung,               \* a call did not return within MaxTicks ticks of one timer
  arg,                \* the argument of the parser or Timer operation applied
                      \* (<<>> where the player is what runs)
  result              \* what that operation returned (<<>>: not applied)

vars == << version, chipset_frequency, frame_frequency, loop_frame, frames,
           dd_samples, dd_samples_ends, cursor, voice_effects, buzzer,
           events, ret, played, dispatched, ncalls, run, panicked, since_reset, hung,
           arg, result >>

song_vars == << version, chipset_frequency, frame_frequency, loop_frame, frames,
                dd_samples, dd_samples_ends >>

fn_vars == << arg, result >>

(* ---- bit helpers on u8 values ---- *)
Pow2(k) == CASE k = 0 -> 1 [] k = 1 -> 2 [] k = 2 -> 4 [] k = 3 -> 8
             [] k = 4 -> 16 [] k = 5 -> 32 [] k = 6 -> 64 [] k = 7 -> 128
Bit(x, k) == (x \div Pow2(k)) % 2
RECURSIVE BitSum(_, _, _, _)
BitSum(Op(_, _), a, b, k) ==
  IF k > 7 THEN 0 ELSE Op(Bit(a, k), Bit(b, k)) * Pow2(k) + BitSum(Op, a, b, k + 1)
AndBit(x, y) == x * y
OrBit(x, y) == IF x + y > 0 THEN 1 ELSE 0
BitAnd(a, b) == BitSum(AndBit, a, b, 0)
BitOr(a, b) == BitSum(OrBit, a, b, 0)
Min(a, b) == IF a < b THEN a ELSE b

(* ---- YmFrame: data is [u8;16], kept as a 16-tuple, register r at r + 1 ---- *)
Data(frame, r) == frame[r + 1]

\* FxCtrlFlags::from_bits_truncate: every bit of a u8 is a known flag bit
fx0(frame) == Data(frame, 1)
fx1(frame) == Data(frame, 3)

\* vol without the 0x1f mask
vol_unmasked(frame, chan) == Data(frame, VOL_A_REG + (chan % 4))

\* YmFrame::vol: chan & 3 selects the voice, the byte is masked with 0x1f
vol(frame, chan) == BitAnd(Data(frame, VOL_A_REG + (chan % 4)), 31)

calculate_timer_divisor(prediv3, div8) ==
  LET code == BitAnd(prediv3, 224)
      prediv == CASE code = 0 -> 0
                  [] code = 32 -> 4
                  [] code = 64 -> 10
                  [] code = 96 -> 16
                  [] code = 128 -> 50
                  [] code = 160 -> 64
                  [] code = 192 -> 100
                  [] code = 224 -> 200
  IN prediv * div8

\* Option<NonZeroU32>: 0 stands for None
timer_divisor0(frame) == calculate_timer_divisor(Data(frame, 6), Data(frame, 14))
timer_divisor1(frame) == calculate_timer_divisor(Data(frame, 8), Data(frame, 15))

(* ---- flags.rs ---- *)
\* From<FxCtrlFlags> for FxChannel, then FxChannel::channel: -1 stands for None
FxChannel(flags) == BitAnd(flags, 48) \div 16
channel(fxchan) == IF fxchan = 0 THEN -1 ELSE fxchan - 1

\* the effect types with the codes of DIGI-DRUM and Sinus SID swapped
FxType_swapped(flags) ==
  LET t == BitAnd(flags, 192)
  IN CASE t = 0 -> "SidVoice"
       [] t = 64 -> "SinusSid"
       [] t = 128 -> "DigiDrum"
       [] t = 192 -> "SyncBuzz"

\* From<FxCtrlFlags> for FxType
FxType(flags) ==
  LET t == BitAnd(flags, 192)
  IN CASE t = 0 -> "SidVoice"
       [] t = 64 -> "DigiDrum"
       [] t = 128 -> "SinusSid"
       [] t = 192 -> "SyncBuzz"

\* Option results: chan = -1 stands for None
ts_channel(flags) ==
  [reset_sid |-> BitAnd(flags, 64) # 0, chan |-> channel(FxChannel(flags))]
dd_channel(flags) == channel(FxChannel(flags))
fx6_channel(flags) == [fx |-> FxType(flags), chan |-> channel(FxChannel(flags))]

(* ---- effects.rs: Timer ---- *)
\* #[derive(Default)] Timer { current: 0.0, step: 0.0 }
TimerDefault == [current |-> 0, step |-> 0]

\* Timer::reset
TimerReset(timer) == [timer EXCEPT !.current = 0]

\* Timer::set_step: the assignment; its assertion is StepAboveEpsilon below
set_step(timer, step) == [timer EXCEPT !.step = step]

\* f32 % and trunc() keep the sign of the dividend
Rem(a, b) == IF a >= 0 THEN a % b ELSE 0 - ((0 - a) % b)
Trunc(a, b) == IF a >= 0 THEN a \div b ELSE 0 - ((0 - a) \div b)

\* Timer::fast_forward: a step that was set is > EPSILON, the default step is 0
fast_forward(timer, limit) ==
  IF timer.step > 0
    THEN LET rest == limit - timer.current
         IN [timer |-> [timer EXCEPT !.current = timer.step - Rem(rest, timer.step)],
             ticks |-> Trunc(rest, timer.step)]
    ELSE [timer |-> timer, ticks |-> 0]

\* TimerIter::next that yields current without adding the step
TimerIterNext_stuck(timer, limit) ==
  IF timer.current < limit
    THEN [some |-> TRUE, ts |-> timer.current, timer |-> timer]
    ELSE [some |-> FALSE, ts |-> 0,
          timer |-> [timer EXCEPT !.current = @ - limit]]

\* TimerIter::next: Some(current) and current += step while current < limit,
\* else current -= limit and None
TimerIterNext(timer, limit) ==
  IF timer.current < limit
    THEN [some |-> TRUE, ts |-> timer.current,
          timer |-> [timer EXCEPT !.current = @ + timer.step]]
    ELSE [some |-> FALSE, ts |-> 0,
          timer |-> [timer EXCEPT !.current = @ - limit]]

\* TimerIter::force_end
force_end(timer, limit) == [timer EXCEPT !.current = limit]

\* An event handed to the record callback: (ts, reg, val); "by" is a label of
\* the statement that emitted it, kept for the properties only.
Ev(ts, reg, val, by) == [t |-> ts, reg |-> reg, val |-> val, by |-> by]

\* Step(s) applied to s until s.done, at most n times.  The calls are split
\* in halves so that the evaluation nests only log2(n) deep.
RECURSIVE Iterate(_, _, _)
Iterate(Step(_), s, n) ==
  IF s.done \/ n <= 0 THEN s
  ELSE IF n = 1 THEN Step(s)
  ELSE Iterate(Step, Iterate(Step, s, n \div 2), n - (n \div 2))

\* One next() on a TimerIter whose None leaves current at 0
TimerIterStep_no_carry(s) ==
  LET n == TimerIterNext(s.timer, s.limit)
  IN IF n.some
       THEN [s EXCEPT !.timer = n.timer, !.ticks = Append(@, n.ts)]
       ELSE [s EXCEPT !.timer = TimerReset(s.timer), !.done = TRUE]

\* One next() on a TimerIter whose yields are collected in s.ticks
TimerIterStep(s) ==
  LET n == TimerIterNext(s.timer, s.limit)
  IN IF n.some
       THEN [s EXCEPT !.timer = n.timer, !.ticks = Append(@, n.ts)]
       ELSE [s EXCEPT !.timer = n.timer, !.done = TRUE]

\* TimerIter driven to its first None, as Peekable/Mixer drive every source:
\* the timestamps yielded and the timer left behind.  fuel bounds the number
\* of next() calls the model follows; hung = TRUE when it runs out.
TimerIterRun(timer, limit, fuel) ==
  LET r == Iterate(TimerIterStep,
                   [timer |-> timer, limit |-> limit, ticks |-> <<>>, done |-> FALSE], fuel)
  IN [ticks |-> r.ticks, timer |-> r.timer, hung |-> ~r.done]

(* ---- ym.rs: timing and samples of the song ---- *)
\* timer_interval(divisor) in model time (see the note on time above)
timer_interval(divisor) == divisor * frame_frequency

\* frame_cycles() in model time
frame_cycles == MFP_TIMER_FREQUENCY

\* The assertion of Timer::set_step, step > f32::EPSILON (2^-23), on a step in
\* model time: step * chipset_frequency / (2457600 * frame_frequency) > 2^-23,
\* that is step * 256 * chipset_frequency > 75 * frame_frequency, and with an
\* integer on the left step * 256 > (75 * frame_frequency) \div chipset_frequency.
StepAboveEpsilon(step) ==
  /\ chipset_frequency > 0
  /\ step * 256 > (75 * frame_frequency) \div chipset_frequency

\* dd_samples is either the bank a YM4+ file carries (data) or, for YM2, the
\* built-in bank: parse_ym2 pushes smp >> 4 and smp & 0x0F for every byte smp
\* of YM2_SAMPLES_4BIT.  The bytes of that resource are not part of the
\* sources; YM2_SAMPLES_4BIT(k) stands for byte k.
YM2_SAMPLES_4BIT(k) == (k * 37 + 11) % 256
DdLen == IF dd_samples.ym2bank THEN 2 * YM2_SAMPLES_4BIT_LEN ELSE Len(dd_samples.data)
DdAt(i) ==
  IF dd_samples.ym2bank
    THEN LET smp == YM2_SAMPLES_4BIT(i \div 2)
         IN IF i % 2 = 0 THEN smp \div 16 ELSE smp % 16
    ELSE dd_samples.data[i + 1]

\* YmSong::sample_data_range; indexing dd_samples_ends panics when sample >= 32
sample_data_range(sample) ==
  IF sample >= MAX_DD_SAMPLES
    THEN [ok |-> FALSE, start |-> 0, end |-> 0]
    ELSE [ok |-> TRUE,
          start |-> IF sample = 0 THEN 0 ELSE dd_samples_ends[sample],
          end |-> dd_samples_ends[sample + 1]]

(* ---- effects.rs: the effect units ---- *)
SyncBuzzerDefault == [timer |-> TimerDefault, shape |-> 0, active |-> FALSE]
SidVoiceDefault == [timer |-> TimerDefault, vol |-> 0, cur |-> FALSE, active |-> FALSE]
SinusSidDefault == [timer |-> TimerDefault, amplitude |-> 0, phase |-> 0, active |-> FALSE]
DigiDrumDefault == [timer |-> TimerDefault, cur |-> 0, end |-> 0]

\* SyncBuzzer::stop, SidVoice::stop, SinusSid::stop
Stop(unit) == [unit EXCEPT !.active = FALSE]

\* DigiDrum::stop
DigiDrumStop(dd) == [dd EXCEPT !.end = 0]

\* DigiDrum::is_active
DigiDrumIsActive(dd) == dd.cur < dd.end

\* SyncBuzzer::start that keeps the step of the timer
SyncBuzzerStart_keeps_step(bz, shape, step) ==
  [bz EXCEPT !.shape = BitAnd(shape, 15), !.active = TRUE]

\* SyncBuzzer::start
SyncBuzzerStart(bz, shape, step) ==
  [bz EXCEPT !.timer = set_step(@, step), !.shape = BitAnd(shape, 15), !.active = TRUE]

\* SidVoice::reset
SidVoiceReset(sv) == [sv EXCEPT !.timer = TimerReset(@), !.cur = FALSE]

\* SidVoice::start that sets the toggle phase back
SidVoiceStart_resets_phase(sv, v, step) ==
  [sv EXCEPT !.timer = set_step(@, step), !.vol = v, !.active = TRUE, !.cur = FALSE]

\* SidVoice::start
SidVoiceStart(sv, v, step) ==
  [sv EXCEPT !.timer = set_step(@, step), !.vol = v, !.active = TRUE]

\* SinusSid::start that sets the phase back
SinusSidStart_resets_phase(ss, amplitude, step) ==
  [ss EXCEPT !.timer = set_step(@, step), !.amplitude = amplitude, !.active = TRUE, !.phase = 0]

\* SinusSid::start
SinusSidStart(ss, amplitude, step) ==
  [ss EXCEPT !.timer = set_step(@, step), !.amplitude = amplitude, !.active = TRUE]

\* DigiDrum::start without the reset of the timer
DigiDrumStart_keeps_timer(dd, start, end, step) ==
  [dd EXCEPT !.timer = set_step(@, step), !.cur = start, !.end = end]

\* DigiDrum::start
DigiDrumStart(dd, start, end, step) ==
  [dd EXCEPT !.timer = set_step(TimerReset(@), step), !.cur = start, !.end = end]

\* sinus_sid that divides without the + 127 of the rounding
sinus_sid_floor(phase, v) == (SINUS_SID[(phase % SINUS_SID_PERIOD) + 1] * v) \div 255

\* sinus_sid(phase, vol)
sinus_sid(phase, v) == (SINUS_SID[(phase % SINUS_SID_PERIOD) + 1] * v + 127) \div 255

\* The result of iter_frame: some = an iterator was returned; evs = the events
\* it yields up to its first None; unit = the unit once the iterator is spent.
NoIter(unit) == [some |-> FALSE, evs |-> <<>>, unit |-> unit, hung |-> FALSE, panicked |-> FALSE]

\* SyncBuzzer::iter_frame whose ticks come a step after the timer value
SyncBuzzerIterFrame_step_first(bz, limit) ==
  IF bz.active
    THEN LET r == TimerIterRun([bz.timer EXCEPT !.current = @ + bz.timer.step], limit, MaxTicks)
         IN [some |-> TRUE,
             evs |-> [i \in 1..Len(r.ticks) |-> Ev(r.ticks[i], ENV_REG, bz.shape, "bz")],
             unit |-> [bz EXCEPT !.timer = r.timer],
             hung |-> r.hung, panicked |-> FALSE]
    ELSE NoIter(bz)

\* SyncBuzzer::iter_frame
SyncBuzzerIterFrame(bz, limit) ==
  IF bz.active
    THEN LET r == TimerIterRun(bz.timer, limit, MaxTicks)
         IN [some |-> TRUE,
             evs |-> [i \in 1..Len(r.ticks) |-> Ev(r.ticks[i], ENV_REG, bz.shape, "bz")],
             unit |-> [bz EXCEPT !.timer = r.timer],
             hung |-> r.hung, panicked |-> FALSE]
    ELSE NoIter(bz)

\* cur after k toggles
Toggled(cur, k) == IF k % 2 = 1 THEN ~cur ELSE cur

\* SidVoice::iter_frame
SidVoiceIterFrame(sv, limit, reg) ==
  IF sv.active
    THEN LET r == TimerIterRun(sv.timer, limit, MaxTicks)
         IN [some |-> TRUE,
             evs |-> [i \in 1..Len(r.ticks) |->
                       Ev(r.ticks[i], reg, IF Toggled(sv.cur, i - 1) THEN 0 ELSE sv.vol, "sv")],
             unit |-> [sv EXCEPT !.timer = r.timer, !.cur = Toggled(@, Len(r.ticks))],
             hung |-> r.hung, panicked |-> FALSE]
    ELSE LET ff == fast_forward(sv.timer, limit)
             \* `as u32` saturates a negative count to 0
             n == IF ff.ticks < 0 THEN 0 ELSE ff.ticks
         IN NoIter([sv EXCEPT !.timer = ff.timer, !.cur = Toggled(@, n)])

\* SinusSid::iter_frame
SinusSidIterFrame(ss, limit, reg) ==
  IF ss.active
    THEN LET r == TimerIterRun(ss.timer, limit, MaxTicks)
         IN [some |-> TRUE,
             evs |-> [i \in 1..Len(r.ticks) |->
                       Ev(r.ticks[i], reg, sinus_sid(ss.phase + i - 1, ss.amplitude), "ss")],
             unit |-> [ss EXCEPT !.timer = r.timer,
                                 !.phase = (@ + Len(r.ticks)) % SINUS_SID_PERIOD],
             hung |-> r.hung, panicked |-> FALSE]
    ELSE NoIter(ss)

\* The closure that ends without the end_vol event when the samples are out
DigiDrumStep_no_terminator(s) ==
  LET n == TimerIterNext(s.timer, s.limit)
  IN IF ~n.some
       THEN [s EXCEPT !.timer = n.timer, !.done = TRUE]
       ELSE IF s.pos < s.end
         THEN [s EXCEPT !.timer = n.timer, !.pos = @ + 1,
                        !.evs = Append(@, Ev(n.ts, s.reg, DdAt(s.pos), "dd"))]
         ELSE [s EXCEPT !.timer = force_end(n.timer, s.limit)]

\* One call of the from_fn closure of DigiDrum::iter_frame; s.pos is the index
\* of the next sample (end - samples.len())
DigiDrumStep(s) ==
  LET n == TimerIterNext(s.timer, s.limit)
  IN IF ~n.some
       THEN [s EXCEPT !.timer = n.timer, !.done = TRUE]
       ELSE IF s.pos < s.end
         THEN [s EXCEPT !.timer = n.timer, !.pos = @ + 1,
                        !.evs = Append(@, Ev(n.ts, s.reg, DdAt(s.pos), "dd"))]
         ELSE [s EXCEPT !.timer = force_end(n.timer, s.limit),
                        !.evs = Append(@, Ev(n.ts, s.reg, s.end_vol, "dd"))]

\* The closure driven to its first None, where it stores pos in cur
DigiDrumRun(timer, pos, end, limit, reg, end_vol, fuel) ==
  LET r == Iterate(DigiDrumStep,
                   [timer |-> timer, pos |-> pos, end |-> end, limit |-> limit,
                    reg |-> reg, end_vol |-> end_vol, evs |-> <<>>, done |-> FALSE], fuel)
  IN [evs |-> r.evs, timer |-> r.timer, cur |-> r.pos, hung |-> ~r.done]

\* DigiDrum::iter_frame whose closure does not store the index in cur
DigiDrumIterFrame_keeps_cur(dd, limit, reg, end_vol) ==
  IF dd.cur < dd.end
    THEN IF dd.end > DdLen
           THEN [some |-> TRUE, evs |-> <<>>, unit |-> dd, hung |-> FALSE, panicked |-> TRUE]
           ELSE LET r == DigiDrumRun(dd.timer, dd.cur, dd.end, limit, reg, end_vol, MaxTicks)
                IN [some |-> TRUE, evs |-> r.evs,
                    unit |-> [dd EXCEPT !.timer = r.timer],
                    hung |-> r.hung, panicked |-> FALSE]
    ELSE NoIter(dd)

\* DigiDrum::iter_frame; the slice dd_samples[cur..end] panics when end is
\* beyond the samples
DigiDrumIterFrame(dd, limit, reg, end_vol) ==
  IF dd.cur < dd.end
    THEN IF dd.end > DdLen
           THEN [some |-> TRUE, evs |-> <<>>, unit |-> dd, hung |-> FALSE, panicked |-> TRUE]
           ELSE LET r == DigiDrumRun(dd.timer, dd.cur, dd.end, limit, reg, end_vol, MaxTicks)
                IN [some |-> TRUE, evs |-> r.evs,
                    unit |-> [dd EXCEPT !.timer = r.timer, !.cur = r.cur],
                    hung |-> r.hung, panicked |-> FALSE]
    ELSE NoIter(dd)

(* ---- effects.rs: Mixer ---- *)
\* The comparison of Mixer::next on two peeked sources, each given as the
\* events it still has to yield: Ordering::Less
PeekLess(a, b) == a # <<>> /\ (b = <<>> \/ Head(a).t < Head(b).t)

\* min_by that takes the first source that still has events, whatever its timestamp
MinPos_first_live(iters) ==
  IF \E p \in 1..Len(iters) : iters[p] # <<>>
    THEN CHOOSE p \in 1..Len(iters) :
           iters[p] # <<>> /\ \A q \in 1..(p - 1) : iters[q] = <<>>
    ELSE 1

\* enumerate().min_by(..): the position of the first minimal source
MinPos(iters) ==
  CHOOSE p \in 1..Len(iters) :
    /\ \A q \in 1..(p - 1) : PeekLess(iters[p], iters[q])
    /\ \A q \in (p + 1)..Len(iters) : ~PeekLess(iters[q], iters[p])

\* Mixer::next: the next event of the first minimal source, None (done) when
\* there is no source or the minimal one is spent
MixerNext(s) ==
  IF Len(s.iters) = 0 THEN [s EXCEPT !.done = TRUE]
  ELSE LET pos == MinPos(s.iters)
       IN IF s.iters[pos] = <<>> THEN [s EXCEPT !.done = TRUE]
          ELSE [s EXCEPT !.out = Append(@, Head(s.iters[pos])),
                         !.iters[pos] = Tail(@)]

RECURSIVE SumLen(_)
SumLen(iters) == IF iters = <<>> THEN 0 ELSE Len(Head(iters)) + SumLen(Tail(iters))

\* `for (ts, reg, val) in mixer`: Mixer::next until it returns None; the
\* sources are finite here, so one call more than they hold events suffices
MixerRun(iters) ==
  Iterate(MixerNext, [iters |-> iters, out |-> <<>>, done |-> FALSE], SumLen(iters) + 1).out

(* ---- player.rs ---- *)
\* The state a call works on: ve = voice_effects, bz = buzzer, evs = the
\* events handed to rec so far, panicked = the call has panicked, started =
\* the <<effect, voice>> pairs whose start() the call has run (kept for the
\* properties only).
VoiceDefault == [sv |-> SidVoiceDefault, ss |-> SinusSidDefault, dd |-> DigiDrumDefault]

\* fx_update that stops the other units of the voice it starts an effect on
fx_update_exclusive(st, fx, chan, divisor, v) ==
  LET step == timer_interval(divisor)
      range == sample_data_range(v)
  IN IF st.panicked THEN st
     ELSE IF fx = "DigiDrum" /\ ~range.ok THEN [st EXCEPT !.panicked = TRUE]
     ELSE IF ~StepAboveEpsilon(step) THEN [st EXCEPT !.panicked = TRUE]
     ELSE LET st1 == [st EXCEPT !.started = @ \cup {<<fx, chan>>}]
          IN CASE fx = "SidVoice" ->
                    [st1 EXCEPT !.ve[chan].sv = SidVoiceStart(@, BitAnd(v, 15), step),
                                !.ve[chan].ss = Stop(@), !.ve[chan].dd = DigiDrumStop(@)]
               [] fx = "DigiDrum" ->
                    [st1 EXCEPT !.ve[chan].dd = DigiDrumStart(@, range.start, range.end, step),
                                !.ve[chan].sv = Stop(@), !.ve[chan].ss = Stop(@)]
               [] fx = "SinusSid" ->
                    [st1 EXCEPT !.ve[chan].ss = SinusSidStart(@, BitAnd(v, 15), step),
                                !.ve[chan].sv = Stop(@), !.ve[chan].dd = DigiDrumStop(@)]
               [] fx = "SyncBuzz" ->
                    [st1 EXCEPT !.bz = SyncBuzzerStart(@, BitAnd(v, 15), step)]

\* YmSong::fx_update
fx_update(st, fx, chan, divisor, v) ==
  LET step == timer_interval(divisor)
      range == sample_data_range(v)
  IN IF st.panicked THEN st
     ELSE IF fx = "DigiDrum" /\ ~range.ok THEN [st EXCEPT !.panicked = TRUE]
     ELSE IF ~StepAboveEpsilon(step) THEN [st EXCEPT !.panicked = TRUE]
     ELSE LET st1 == [st EXCEPT !.started = @ \cup {<<fx, chan>>}]
          IN CASE fx = "SidVoice" ->
                    [st1 EXCEPT !.ve[chan].sv = SidVoiceStart(@, BitAnd(v, 15), step)]
               [] fx = "DigiDrum" ->
                    [st1 EXCEPT !.ve[chan].dd = DigiDrumStart(@, range.start, range.end, step)]
               [] fx = "SinusSid" ->
                    [st1 EXCEPT !.ve[chan].ss = SinusSidStart(@, BitAnd(v, 15), step)]
               [] fx = "SyncBuzz" ->
                    [st1 EXCEPT !.bz = SyncBuzzerStart(@, BitAnd(v, 15), step)]

\* rec(0.0, reg, val)
Rec0(st, reg, val, by) == [st EXCEPT !.evs = Append(@, Ev(0, reg, val, by))]

\* play_ym2_frame without the prescale of 4 on the timer divisor
play_ym2_frame_no_prescale(st, frame) ==
  LET shape == Data(frame, ENV_REG)
      st1 == IF shape # 255
               THEN Rec0(Rec0(Rec0(st, ENV_PER_FINE_REG, Data(frame, ENV_PER_FINE_REG), "env"),
                              ENV_PER_COARSE_REG, 0, "env"),
                         ENV_REG, 16, "env")
               ELSE st
      vol_c == Data(frame, VOL_C_REG)
      sample == BitAnd(vol_c, 127)
      prediv == Data(frame, ENV_PER_COARSE_REG)
      divisor == prediv
      step == timer_interval(divisor)
  IN IF BitAnd(vol_c, 128) = 128 /\ sample < Len(YM2_SAMPLE_ENDS) /\ divisor # 0
       THEN IF ~StepAboveEpsilon(step) THEN [st1 EXCEPT !.panicked = TRUE]
            ELSE [st1 EXCEPT !.started = @ \cup {<<"DigiDrum", 2>>},
                             !.ve[2].dd =
                    DigiDrumStart(@, IF sample = 0 THEN 0 ELSE YM2_SAMPLE_ENDS[sample],
                                  YM2_SAMPLE_ENDS[sample + 1], step)]
       ELSE st1

\* YmSong::play_ym2_frame
play_ym2_frame(st, frame) ==
  LET shape == Data(frame, ENV_REG)
      st1 == IF shape # 255
               THEN Rec0(Rec0(Rec0(st, ENV_PER_FINE_REG, Data(frame, ENV_PER_FINE_REG), "env"),
                              ENV_PER_COARSE_REG, 0, "env"),
                         ENV_REG, 16, "env")
               ELSE st
      vol_c == Data(frame, VOL_C_REG)
      sample == BitAnd(vol_c, 127)
      prediv == Data(frame, ENV_PER_COARSE_REG)
      divisor == 4 * prediv
      step == timer_interval(divisor)
  IN IF BitAnd(vol_c, 128) = 128 /\ sample < Len(YM2_SAMPLE_ENDS) /\ divisor # 0
       THEN IF ~StepAboveEpsilon(step) THEN [st1 EXCEPT !.panicked = TRUE]
            ELSE [st1 EXCEPT !.started = @ \cup {<<"DigiDrum", 2>>},
                             !.ve[2].dd =
                    DigiDrumStart(@, IF sample = 0 THEN 0 ELSE YM2_SAMPLE_ENDS[sample],
                                  YM2_SAMPLE_ENDS[sample + 1], step)]
       ELSE st1

\* play_ym3_frame that writes the envelope shape whatever its value
play_ym3_frame_any_shape(st, frame) ==
  Rec0(Rec0(Rec0(st, ENV_PER_FINE_REG, Data(frame, ENV_PER_FINE_REG), "env"),
            ENV_PER_COARSE_REG, Data(frame, ENV_PER_COARSE_REG), "env"),
       ENV_REG, Data(frame, ENV_REG), "env")

\* YmSong::play_ym3_frame
play_ym3_frame(st, frame) ==
  LET st1 == Rec0(Rec0(st, ENV_PER_FINE_REG, Data(frame, ENV_PER_FINE_REG), "env"),
                  ENV_PER_COARSE_REG, Data(frame, ENV_PER_COARSE_REG), "env")
      shape == Data(frame, ENV_REG)
  IN IF shape # 255 THEN Rec0(st1, ENV_REG, shape, "env") ELSE st1

\* play_ym5_frame that resets the SidVoice whatever bit 6 of fx0 says
play_ym5_frame_always_reset(st, frame) ==
  LET st1 == play_ym3_frame(st, frame)
      ts == ts_channel(fx0(frame))
      div0 == timer_divisor0(frame)
      ddc == dd_channel(fx1(frame))
      div1 == timer_divisor1(frame)
      st2 == IF ts.chan >= 0 /\ div0 # 0
               THEN fx_update(IF TRUE
                                THEN [st1 EXCEPT !.ve[ts.chan].sv = SidVoiceReset(@)]
                                ELSE st1,
                              "SidVoice", ts.chan, div0, vol(frame, ts.chan))
               ELSE st1
  IN IF ddc >= 0 /\ div1 # 0
       THEN fx_update(st2, "DigiDrum", ddc, div1, vol(frame, ddc))
       ELSE st2

\* YmSong::play_ym5_frame
play_ym5_frame(st, frame) ==
  LET st1 == play_ym3_frame(st, frame)
      ts == ts_channel(fx0(frame))
      div0 == timer_divisor0(frame)
      ddc == dd_channel(fx1(frame))
      div1 == timer_divisor1(frame)
      st2 == IF ts.chan >= 0 /\ div0 # 0
               THEN fx_update(IF ts.reset_sid
                                THEN [st1 EXCEPT !.ve[ts.chan].sv = SidVoiceReset(@)]
                                ELSE st1,
                              "SidVoice", ts.chan, div0, vol(frame, ts.chan))
               ELSE st1
  IN IF ddc >= 0 /\ div1 # 0
       THEN fx_update(st2, "DigiDrum", ddc, div1, vol(frame, ddc))
       ELSE st2

\* play_ym6_frame that takes a zero divisor of fx1 for the largest one
play_ym6_frame_zero_as_max(st, frame) ==
  LET st1 == play_ym3_frame(st, frame)
      f0 == fx6_channel(fx0(frame))
      div0 == timer_divisor0(frame)
      f1 == fx6_channel(fx1(frame))
      div1 == IF timer_divisor1(frame) = 0 THEN 51000 ELSE timer_divisor1(frame)
      st2 == IF f0.chan >= 0 /\ div0 # 0
               THEN fx_update(st1, f0.fx, f0.chan, div0, vol(frame, f0.chan))
               ELSE st1
  IN IF f1.chan >= 0
       THEN fx_update(st2, f1.fx, f1.chan, div1, vol(frame, f1.chan))
       ELSE st2

\* YmSong::play_ym6_frame
play_ym6_frame(st, frame) ==
  LET st1 == play_ym3_frame(st, frame)
      f0 == fx6_channel(fx0(frame))
      div0 == timer_divisor0(frame)
      f1 == fx6_channel(fx1(frame))
      div1 == timer_divisor1(frame)
      st2 == IF f0.chan >= 0 /\ div0 # 0
               THEN fx_update(st1, f0.fx, f0.chan, div0, vol(frame, f0.chan))
               ELSE st1
  IN IF f1.chan >= 0 /\ div1 # 0
       THEN fx_update(st2, f1.fx, f1.chan, div1, vol(frame, f1.chan))
       ELSE st2

\* chan_mask with the tone bit only
ChanMask_tone_only(i) == Pow2(i)

\* chan_mask of voice i: 0b001001 shifted left once per voice
ChanMask(i) == 9 * Pow2(i)

\* the chain with the DigiDrum asked first
Selected_dd_first(svr, ssr, ddr) ==
  IF ddr.some THEN "dd"
  ELSE IF svr.some THEN "sv"
  ELSE IF ssr.some THEN "ss"
  ELSE "vol"

\* The if / else if chain of the loop body on the three iter_frame results:
\* the unit whose iterator is kept, or "vol" for the plain volume write
Selected(svr, ssr, ddr) ==
  IF svr.some THEN "sv"
  ELSE IF ssr.some THEN "ss"
  ELSE IF ddr.some THEN "dd"
  ELSE "vol"

\* One pass of the `while let` loop of produce_next_ay_frame for voice i:
\* acc.st is the call state, acc.chan_mix the mixer byte, acc.iters the
\* iterators kept for the Mixer (frm_iters after iter_select, in voice order).
\* sv.iter_frame is always called (it fast-forwards an inactive SidVoice),
\* ss.iter_frame and dd.iter_frame only when the units before them gave None.
\* VoiceBranch is the branch of the if / else if chain that sel names, on
\* acc1, the loop state after sv.iter_frame.
VoiceBranch(acc1, i, frame, reg, sel, svr, ssr, ddr) ==
  CASE sel = "sv" ->
         [acc1 EXCEPT !.iters = Append(@, svr.evs), !.hung = @ \/ svr.hung]
    [] sel = "ss" ->
         [acc1 EXCEPT !.st.ve[i].ss = ssr.unit,
                      !.iters = Append(@, ssr.evs),
                      !.hung = @ \/ ssr.hung]
    [] sel = "dd" ->
         IF ddr.panicked
           THEN [acc1 EXCEPT !.st.panicked = TRUE]
           ELSE [acc1 EXCEPT !.st.ve[i].dd = ddr.unit,
                             !.chan_mix = BitOr(@, ChanMask(i)),
                             !.iters = Append(@, ddr.evs),
                             !.hung = @ \/ ddr.hung]
    [] sel = "vol" ->
         [acc1 EXCEPT !.st = Rec0(@, reg, vol(frame, reg), "vol")]

\* the loop body once the three iter_frame results are at hand
VoiceChain(acc, i, frame, reg, svr, ssr, ddr) ==
  VoiceBranch([acc EXCEPT !.st.ve[i].sv = svr.unit], i, frame, reg,
              Selected(svr, ssr, ddr), svr, ssr, ddr)

VoiceStep(acc, i, frame) ==
  IF acc.st.panicked THEN acc
  ELSE VoiceChain(acc, i, frame, VOL_A_REG + i,
                  SidVoiceIterFrame(acc.st.ve[i].sv, frame_cycles, VOL_A_REG + i),
                  SinusSidIterFrame(acc.st.ve[i].ss, frame_cycles, VOL_A_REG + i),
                  DigiDrumIterFrame(acc.st.ve[i].dd, frame_cycles, VOL_A_REG + i,
                                    vol(frame, VOL_A_REG + i)))

\* the per-frame stop that leaves the SID voices running
FrameStop_keeps_sid(ve, bz) ==
  [ve |-> [i \in 0..2 |-> [ve[i] EXCEPT !.ss = Stop(@)]],
   bz |-> Stop(bz), evs |-> <<>>, panicked |-> FALSE, started |-> {}]

\* the per-frame stop that stops the DigiDrums as well
FrameStop_with_dd(ve, bz) ==
  [ve |-> [i \in 0..2 |-> [ve[i] EXCEPT !.sv = Stop(@), !.ss = Stop(@),
                                        !.dd = DigiDrumStop(@)]],
   bz |-> Stop(bz), evs |-> <<>>, panicked |-> FALSE, started |-> {}]

\* the per-frame stop of SidVoice, SinusSid and the buzzer
FrameStop(ve, bz) ==
  [ve |-> [i \in 0..2 |-> [ve[i] EXCEPT !.sv = Stop(@), !.ss = Stop(@)]],
   bz |-> Stop(bz), evs |-> <<>>, panicked |-> FALSE, started |-> {}]

\* the match that plays Ym3 frames as Ym2 frames
VersionDispatch_ym3_as_ym2(st, frame) ==
  CASE version \in {"Ym2", "Ym3"} -> play_ym2_frame(st, frame)
    [] version \in {"Ym4", "Ym5"} -> play_ym5_frame(st, frame)
    [] version = "Ym6" -> play_ym6_frame(st, frame)

\* match self.version { .. }
VersionDispatch(st, frame) ==
  CASE version = "Ym2" -> play_ym2_frame(st, frame)
    [] version = "Ym3" -> play_ym3_frame(st, frame)
    [] version \in {"Ym4", "Ym5"} -> play_ym5_frame(st, frame)
    [] version = "Ym6" -> play_ym6_frame(st, frame)

\* the base burst that stops one register early
RECURSIVE BaseBurst_short(_, _, _)
BaseBurst_short(st, frame, reg) ==
  IF reg >= MIXER_REG - 1 THEN st
  ELSE BaseBurst_short(Rec0(st, reg, Data(frame, reg), "base"), frame, reg + 1)

\* for (val, reg) in frame.data.iter().copied().zip(0..MIXER_REG) { rec(0.0, reg, val) }
RECURSIVE BaseBurst(_, _, _)
BaseBurst(st, frame, reg) ==
  IF reg >= MIXER_REG THEN st
  ELSE BaseBurst(Rec0(st, reg, Data(frame, reg), "base"), frame, reg + 1)

\* the block with the mixer byte written before the loop over the voices
ZeroBlock_mixer_first(st, frame) ==
  LET acc0 == [st |-> Rec0(BaseBurst(st, frame, 0), MIXER_REG, Data(frame, MIXER_REG), "mixer"),
               chan_mix |-> Data(frame, MIXER_REG), iters |-> <<>>, hung |-> FALSE]
  IN VoiceStep(VoiceStep(VoiceStep(acc0, 0, frame), 1, frame), 2, frame)

\* The writes of produce_next_ay_frame that follow the version dispatch: the
\* base registers, the loop over the voices (plain volume writes, iterators
\* and the forced mixer bits), then rec(0.0, MIXER_REG, chan_mix) (MixerWrite)
MixerWrite(acc3) ==
  IF acc3.st.panicked THEN acc3
  ELSE [acc3 EXCEPT !.st = Rec0(@, MIXER_REG, acc3.chan_mix, "mixer")]

ZeroBlock(st, frame) ==
  MixerWrite(VoiceStep(VoiceStep(VoiceStep(
    [st |-> BaseBurst(st, frame, 0), chan_mix |-> Data(frame, MIXER_REG),
     iters |-> <<>>, hung |-> FALSE], 0, frame), 1, frame), 2, frame))

\* the cursor step without the clamp of loop_frame
AdvanceCursor_no_clamp(cur, nframes) ==
  IF (cur + 1) % nframes = 0
    THEN [cursor |-> loop_frame, ret |-> TRUE]
    ELSE [cursor |-> (cur + 1) % nframes, ret |-> FALSE]

\* the cursor step that wraps one frame early
AdvanceCursor_early(cur, nframes) ==
  IF cur + 1 >= nframes - 1
    THEN [cursor |-> Min(loop_frame, nframes - 1), ret |-> TRUE]
    ELSE [cursor |-> cur + 1, ret |-> FALSE]

\* the cursor step that restarts the song when loop_frame is out of range
AdvanceCursor_restart(cur, nframes) ==
  IF (cur + 1) % nframes = 0
    THEN [cursor |-> IF loop_frame >= nframes THEN 0 ELSE loop_frame, ret |-> TRUE]
    ELSE [cursor |-> (cur + 1) % nframes, ret |-> FALSE]

\* the cursor step that ends produce_next_ay_frame
AdvanceCursor(cur, nframes) ==
  IF (cur + 1) % nframes = 0
    THEN [cursor |-> Min(loop_frame, nframes - 1), ret |-> TRUE]
    ELSE [cursor |-> (cur + 1) % nframes, ret |-> FALSE]

\* YmSong::produce_next_ay_frame, the whole call.  A panic or a call that
\* never returns leaves cursor and ret as they were.  MixAndAdvance is the end
\* of the call: the merged effect events follow the t = 0 writes, the units
\* are left as the spent iterators leave them, and the cursor steps on.
MixAndAdvance(st1, st3, acc3, bzr, stopped, adv, cur, rt) ==
  [ve |-> st3.ve,
   bz |-> IF st3.panicked THEN st3.bz ELSE bzr.unit,
   evs |-> IF st3.panicked THEN st3.evs
           ELSE st3.evs \o MixerRun(IF bzr.some THEN Append(acc3.iters, bzr.evs)
                                                ELSE acc3.iters),
   panicked |-> st3.panicked,
   hung |-> ~st3.panicked /\ (acc3.hung \/ bzr.hung),
   cursor |-> IF stopped THEN cur ELSE adv.cursor,
   ret |-> IF stopped THEN rt ELSE adv.ret,
   dispatched |-> [ve |-> st1.ve, bz |-> st1.bz, started |-> st1.started]]

\* the buzzer iterator and the cursor step, once the loop over the voices is done
AfterVoices(st1, acc3, bzr, cur, rt) ==
  MixAndAdvance(st1, acc3.st, acc3, bzr,
                acc3.st.panicked \/ acc3.hung \/ bzr.hung,
                AdvanceCursor(cur, Len(frames)), cur, rt)

\* the call from the base registers on, st1 being the state after the dispatch
AfterDispatch(st1, acc3, cur, rt) ==
  AfterVoices(st1, acc3, SyncBuzzerIterFrame(acc3.st.bz, frame_cycles), cur, rt)

\* the call after the version dispatch
FrameBody(st1, frame, cur, rt) ==
  AfterDispatch(st1, IF st1.panicked
                       THEN [st |-> st1, chan_mix |-> 0, iters |-> <<>>, hung |-> FALSE]
                       ELSE ZeroBlock(st1, frame), cur, rt)

\* the call on a player whose voice_effects, buzzer and cursor are ve, bz and
\* cur (rt: what the call before it returned)
ProduceFrame(ve, bz, cur, rt) ==
  FrameBody(VersionDispatch(FrameStop(ve, bz), frames[cur + 1]), frames[cur + 1], cur, rt)

produce_next_ay_frame == ProduceFrame(voice_effects, buzzer, cursor, ret)

\* reset that does not stop the DigiDrums
reset_keeps_dd ==
  [cursor |-> 0,
   ve |-> [i \in 0..2 |-> [sv |-> Stop(voice_effects[i].sv),
                           ss |-> Stop(voice_effects[i].ss),
                           dd |-> voice_effects[i].dd]],
   bz |-> Stop(buzzer)]

\* YmSong::reset
reset ==
  [cursor |-> 0,
   ve |-> [i \in 0..2 |-> [sv |-> Stop(voice_effects[i].sv),
                           ss |-> Stop(voice_effects[i].ss),
                           dd |-> DigiDrumStop(voice_effects[i].dd)]],
   bz |-> Stop(buzzer)]

(* ---- the songs the parser hands out ---- *)
\* Frames the songs are made of, bytes 0..15 (see YmFrame for the layout):
\* FrameQuiet   no effect requested, shape written
\* FrameSidDd   fx0 = SID voice on A; fx1 = Sinus SID on A (YM6), DIGI-DRUM on A
\*              (YM4/5); YM2: sample 20; shape 0xFF
\* FrameDdBuzz  fx0 = DIGI-DRUM on B (YM6), SID voice on B with restart (YM4/5);
\*              fx1 = Sync Buzzer (YM6), DIGI-DRUM on C (YM4/5)
\* FrameZeroDiv both nibbles select a voice but both divisors are 0
\* FrameUnused  DIGI-DRUM requests for samples 31 and 2; YM2: sample 40
\* FrameLong    fx1 = DIGI-DRUM on A with sample 0; YM2: sample 0
FrameQuiet   == <<1,  2, 3,   4, 5, 6,   7, 56,  10, 11,  12, 13,  14,  13,   0,   0>>
FrameSidDd   == <<1, 18, 3, 148, 5, 6, 167,  0, 161, 11, 148, 14, 255, 255, 192, 128>>
FrameDdBuzz  == <<1, 98, 3, 244, 5, 6, 231,  0, 202,  1,   0, 13,   3,  10, 100, 255>>
FrameZeroDiv == <<1, 82, 3,  36, 5, 6,   7, 63, 225,  1, 128, 13,   0, 255,   7,   0>>
FrameUnused  == <<1, 82, 3, 100, 5, 6, 167,  0, 191,  2, 168, 13, 255,   0, 192, 192>>
FrameLong    == <<1,  2, 3,  84, 5, 6,   7,  0, 160, 11, 128, 13, 255,   5,   0, 192>>
FrameMenu == {FrameQuiet, FrameSidDd, FrameDdBuzz, FrameZeroDiv, FrameUnused, FrameLong}

\* read_interleaved_frames(nframes, 14, ..) fills registers 0..13 of a
\* YmFrame::default(): the YM2/YM3 frames keep 0 in bytes 14 and 15
Regs14(frame) == [r \in 1..16 |-> IF r <= 14 THEN frame[r] ELSE 0]

\* DIGI-DRUM banks of YM4+ files, one tuple of 4-bit values per sample
SampleBanks == { <<>>, << <<1, 2, 3, 4, 5, 6, 7>>, <<15, 14>> >> }
LoopFrames == {0, 1, 7}
ChipsetFrequencies == {1, DEFAULT_CHIPSET_FREQUENCY}

\* read_digidrum_samples: sample_data and sample_ends (32 entries, entry i the
\* length of sample_data once sample i was read, 0 for the samples not read)
RECURSIVE SampleData(_)
SampleData(bank) == IF bank = <<>> THEN <<>> ELSE Head(bank) \o SampleData(Tail(bank))
SampleEnds(bank) ==
  [i \in 1..MAX_DD_SAMPLES |->
     IF i <= Len(bank) THEN Len(SampleData(SubSeq(bank, 1, i))) ELSE 0]

\* YmSong::new: the player part of a fresh song
PlayerInit ==
  /\ cursor = 0
  /\ voice_effects = [i \in 0..2 |-> VoiceDefault]
  /\ buzzer = SyncBuzzerDefault
  /\ events = <<>>
  /\ ret = FALSE
  /\ played = -1
  /\ dispatched = [ve |-> voice_effects, bz |-> buzzer, started |-> {}]
  /\ ncalls = 0
  /\ run = 0
  /\ since_reset = 0
  /\ panicked = FALSE
  /\ hung = FALSE

Init ==
  /\ version \in YmVersions
  /\ \E n \in 1..MaxFrames : \E fs \in [1..n -> FrameMenu] :
       frames = [i \in 1..n |-> IF version \in {"Ym2", "Ym3"} THEN Regs14(fs[i]) ELSE fs[i]]
  /\ loop_frame \in LoopFrames
  /\ chipset_frequency \in
       IF version \in {"Ym5", "Ym6"} THEN ChipsetFrequencies ELSE {DEFAULT_CHIPSET_FREQUENCY}
  /\ frame_frequency = DEFAULT_FRAME_FREQUENCY
  /\ \E bank \in (IF version \in {"Ym4", "Ym5", "Ym6"} THEN SampleBanks ELSE {<<>>}) :
       /\ dd_samples = [ym2bank |-> version = "Ym2", data |-> SampleData(bank)]
       /\ dd_samples_ends = SampleEnds(bank)
  /\ PlayerInit
  /\ arg = <<>>
  /\ result = <<>>

\* a call of produce_next_ay_frame(rec)
ProduceNextAyFrame ==
  /\ ~panicked /\ ~hung
  /\ ncalls < MaxCalls
  /\ IF cursor >= Len(frames)
       THEN /\ panicked' = TRUE
            /\ UNCHANGED << cursor, voice_effects, buzzer, events, ret, played,
                            dispatched, ncalls, run, since_reset, hung >>
       ELSE \E r \in {produce_next_ay_frame} :
               /\ voice_effects' = r.ve
               /\ buzzer' = r.bz
               /\ cursor' = r.cursor
               /\ events' = r.evs
               /\ ret' = r.ret
               /\ played' = cursor
               /\ dispatched' = r.dispatched
               /\ ncalls' = ncalls + 1
               /\ run' = IF cursor = 0 THEN 1 ELSE run + 1
               /\ since_reset' = since_reset + 1
               /\ panicked' = r.panicked
               /\ hung' = r.hung
  /\ UNCHANGED << song_vars, fn_vars >>

\* a call of reset()
Reset ==
  /\ ~panicked /\ ~hung
  /\ cursor' = reset.cursor
  /\ voice_effects' = reset.ve
  /\ buzzer' = reset.bz
  /\ events' = <<>>
  /\ ret' = FALSE
  /\ played' = -1
  /\ dispatched' = [ve |-> reset.ve, bz |-> reset.bz, started |-> {}]
  /\ run' = 0
  /\ since_reset' = 0
  /\ UNCHANGED << song_vars, fn_vars, ncalls, panicked, hung >>

Next == ProduceNextAyFrame \/ Reset

Spec == Init /\ [][Next]_vars

(* ---- the songs of the effect-control checks ---- *)
\* A frame whose bytes 1 and 3 carry the control nibbles n0 and n1 (bits
\* 7..4), whose timer 0 has predivisor 200 (byte 6) and count c0 (byte 14),
\* and whose timer 1 has predivisor code p1 (byte 8, bits 7..5) and count 255
\* (byte 15).  The volume bytes are 17, 1 and 0: sample 17 is not in the
\* bank, samples 1 and 0 are.
FxFrame(n0, n1, c0, p1) ==
  <<1, 16 * n0 + 2, 3, 16 * n1 + 4, 5, 6, 231, 0, 32 * p1 + 17, 1, 0, 13, 14, 10, c0, 255>>
FxCounts == {0, 100}
FxPredivs == {0, 6}
FxBank == << <<1, 2, 3, 4, 5, 6, 7>>, <<15, 14>> >>

\* YmSong::new for a one-frame YM4+ song that loops to its only frame
InitFx ==
  /\ version \in {"Ym4", "Ym5", "Ym6"}
  /\ \E n0, n1 \in 0..15 : \E c0 \in FxCounts : \E p1 \in FxPredivs :
       frames = << FxFrame(n0, n1, c0, p1) >>
  /\ loop_frame = 0
  /\ chipset_frequency = DEFAULT_CHIPSET_FREQUENCY
  /\ frame_frequency = DEFAULT_FRAME_FREQUENCY
  /\ dd_samples = [ym2bank |-> FALSE, data |-> SampleData(FxBank)]
  /\ dd_samples_ends = SampleEnds(FxBank)
  /\ PlayerInit
  /\ arg = <<>>
  /\ result = <<>>

SpecFx == InitFx /\ [][Next]_vars

(* ---- properties ---- *)
EvIdx == 1..Len(events)
\* the frame the last call played
LastFrame == frames[played + 1]

\* C1: every timestamp a call hands to rec lies in [0, frame_cycles), and the
\* timestamps of one call are non-decreasing in call order.
C1_TimestampsInFrameOrdered ==
  /\ \A i \in EvIdx : events[i].t >= 0 /\ events[i].t < frame_cycles
  /\ \A i \in EvIdx : i < Len(events) => events[i].t <= events[i + 1].t

\* a call whose merged stream interleaves two effect sources after t = 0
C1_Witness ==
  \E i, j, k \in EvIdx :
    /\ i < j /\ j < k
    /\ events[i].t > 0
    /\ events[i].by = "dd" /\ events[j].by = "bz" /\ events[k].by = "dd"
    /\ events[i].t < events[j].t /\ events[j].t < events[k].t

\* C2: from cursor = 0, the first n - 1 of n = frames.len() consecutive calls
\* return false and leave cursor = number of calls made, the n-th returns
\* true and leaves cursor = min(loop_frame, n - 1); a call that returns false
\* leaves the cursor one past the frame it played.
C2_WrapOnLastFrame ==
  LET n == Len(frames)
  IN /\ (run >= 1 /\ run < n) => (ret = FALSE /\ cursor = run)
     /\ run = n => (ret = TRUE /\ cursor = Min(loop_frame, n - 1))
     /\ (played >= 0 /\ ret = FALSE) => cursor = played + 1

\* the n-th call of a two-frame song, with the loop frame clamped
C2_Witness ==
  /\ Len(frames) = 2 /\ run = 2 /\ ret = TRUE
  /\ loop_frame = 7 /\ cursor = 1

\* C3: the cursor stays inside [0, frames.len()), whatever loop_frame is.
C3_CursorInRange == cursor >= 0 /\ cursor < Len(frames)

\* a wrap with loop_frame >= frames.len() has happened
C3_Witness == played >= 0 /\ ret = TRUE /\ loop_frame >= Len(frames)

\* every timer of the song has the default step 0 or a step that passes the
\* assertion of set_step
StepsAsserted(ve, bz) ==
  /\ \A v \in 0..2 :
       /\ ve[v].sv.timer.step = 0 \/ StepAboveEpsilon(ve[v].sv.timer.step)
       /\ ve[v].ss.timer.step = 0 \/ StepAboveEpsilon(ve[v].ss.timer.step)
       /\ ve[v].dd.timer.step = 0 \/ StepAboveEpsilon(ve[v].dd.timer.step)
  /\ bz.timer.step = 0 \/ StepAboveEpsilon(bz.timer.step)

\* an active unit has a step that passes the assertion of set_step
ActiveHaveStep(ve, bz) ==
  /\ \A v \in 0..2 :
       /\ ve[v].sv.active => StepAboveEpsilon(ve[v].sv.timer.step)
       /\ ve[v].ss.active => StepAboveEpsilon(ve[v].ss.timer.step)
       /\ DigiDrumIsActive(ve[v].dd) => StepAboveEpsilon(ve[v].dd.timer.step)
  /\ bz.active => StepAboveEpsilon(bz.timer.step)

\* C4: producing a frame never panics: no sample number >= 32 reaches
\* sample_data_range, the window [cur, end) of an active DigiDrum lies inside
\* dd_samples, and every step that was set passed step > epsilon, so an
\* active unit never has a zero step.
C4_NeverPanics ==
  /\ ~panicked
  /\ \A v \in 0..2 :
       /\ DigiDrumIsActive(voice_effects[v].dd) => voice_effects[v].dd.end <= DdLen
       /\ DigiDrumIsActive(dispatched.ve[v].dd) => dispatched.ve[v].dd.end <= DdLen
  /\ StepsAsserted(voice_effects, buzzer)
  /\ ActiveHaveStep(dispatched.ve, dispatched.bz)

\* a frame with two zero divisors was played at the smallest clock while a
\* DigiDrum is in the middle of its sample
C4_Witness ==
  /\ played >= 0 /\ LastFrame = FrameZeroDiv
  /\ chipset_frequency = 1
  /\ \E v \in 0..2 : /\ DigiDrumIsActive(voice_effects[v].dd)
                      /\ voice_effects[v].dd.cur > 0
  /\ ~panicked

\* C5: every call returns after finitely many rec calls: no call is still
\* drawing ticks from a timer after MaxTicks of them, every unit that runs in
\* the frame has a positive step, and a timer that was iterated is left with
\* 0 <= current.
C5_CallReturns ==
  /\ ~hung
  /\ played >= 0 =>
       /\ \A v \in 0..2 :
            /\ dispatched.ve[v].sv.active => dispatched.ve[v].sv.timer.step > 0
            /\ dispatched.ve[v].ss.active => dispatched.ve[v].ss.timer.step > 0
            /\ DigiDrumIsActive(dispatched.ve[v].dd) => dispatched.ve[v].dd.timer.step > 0
            /\ voice_effects[v].sv.timer.current >= 0
            /\ voice_effects[v].ss.timer.current >= 0
            /\ voice_effects[v].dd.timer.current >= 0
       /\ dispatched.bz.active => dispatched.bz.timer.step > 0
       /\ buzzer.timer.current >= 0
       /\ Len(events) <= 14 + 4 * MaxTicks

\* a call that ran a DigiDrum and the buzzer through a whole frame has returned
C5_Witness ==
  /\ played >= 0 /\ ~hung
  /\ \E i, j \in EvIdx : events[i].by = "dd" /\ events[j].by = "bz" /\ events[j].t > 0

EffectBy == {"sv", "ss", "dd"}
\* the units that emitted on the volume register of voice v in the last call
VoiceKinds(v) ==
  {events[i].by : i \in {j \in EvIdx : events[j].reg = VOL_A_REG + v /\ events[j].by \in EffectBy}}
\* the plain volume writes of voice v in the last call
PlainWrites(v) == {i \in EvIdx : events[i].reg = VOL_A_REG + v /\ events[i].by = "vol"}
\* the first active unit of voice v in the last call, by priority
ActiveUnit(v) ==
  LET d == dispatched.ve[v]
  IN IF d.sv.active THEN "sv"
     ELSE IF d.ss.active THEN "ss"
     ELSE IF DigiDrumIsActive(d.dd) THEN "dd"
     ELSE "none"

\* C6: in a produced frame at most one of a voice's SidVoice, SinusSid and
\* DigiDrum emits on the voice's volume register, the first active one in that
\* order; with none active the voice gets exactly one plain volume write
\* (t = 0, volume byte & 0x1f), with one active it gets none.
C6_OneUnitPerVoice ==
  played >= 0 =>
    \A v \in 0..2 :
      /\ Cardinality(VoiceKinds(v)) <= 1
      /\ VoiceKinds(v) \subseteq {ActiveUnit(v)}
      /\ ActiveUnit(v) = "none" =>
           /\ Cardinality(PlainWrites(v)) = 1
           /\ \A i \in PlainWrites(v) :
                /\ events[i].t = 0
                /\ events[i].val = BitAnd(Data(LastFrame, VOL_A_REG + v), 31)
      /\ ActiveUnit(v) # "none" => PlainWrites(v) = {}

\* a voice with SidVoice and DigiDrum both active, on which SidVoice emitted
C6_Witness ==
  /\ played >= 0
  /\ \E v \in 0..2 :
       /\ dispatched.ve[v].sv.active
       /\ DigiDrumIsActive(dispatched.ve[v].dd)
       /\ VoiceKinds(v) = {"sv"}
       /\ \E w \in 0..2 : w # v /\ Cardinality(PlainWrites(w)) = 1

\* the units of voice v that are active in a state
ActiveOn(ve, v) ==
  {k \in EffectBy : \/ k = "sv" /\ ve[v].sv.active
                    \/ k = "ss" /\ ve[v].ss.active
                    \/ k = "dd" /\ DigiDrumIsActive(ve[v].dd)}

MixerWrites == {i \in EvIdx : events[i].by = "mixer"}
\* the mask of the voices whose DigiDrum is the emitting unit of the last call
RECURSIVE ForcedMask(_)
ForcedMask(v) ==
  IF v > 2 THEN 0
  ELSE (IF ActiveUnit(v) = "dd" THEN 9 * Pow2(v) ELSE 0) + ForcedMask(v + 1)

\* C8 as claimed: the computed mixer byte is emitted exactly once, as
\* register 6, after registers 0..5 were emitted verbatim from frame bytes
\* 0..5; register 7 is not written.
C8_Original ==
  played >= 0 =>
    /\ Cardinality(MixerWrites) = 1
    /\ \A i \in MixerWrites :
         /\ events[i].reg = 6
         /\ \A r \in 0..5 : \E j \in 1..(i - 1) :
              events[j] = Ev(0, r, Data(LastFrame, r), "base")
    /\ \A i \in EvIdx : events[i].reg # 7

\* C8 (amended): the computed mixer byte (the frame's mixer byte with the
\* DigiDrum bits forced) is emitted exactly once, as register 7, after
\* registers 0..6 were emitted verbatim, once each, from frame bytes 0..6;
\* register 7 is written by no other event.
C8_MixerOnceAsReg7 ==
  played >= 0 =>
    /\ Cardinality(MixerWrites) = 1
    /\ \A i \in MixerWrites :
         /\ events[i].reg = 7 /\ events[i].t = 0
         /\ events[i].val = BitOr(Data(LastFrame, 7), ForcedMask(0))
         /\ \A r \in 0..6 : \E j \in 1..(i - 1) :
              events[j] = Ev(0, r, Data(LastFrame, r), "base")
    /\ Cardinality({j \in EvIdx : events[j].by = "base"}) = 7
    /\ {i \in EvIdx : events[i].reg = 7} = MixerWrites

\* a frame whose effect control nibble went out verbatim in register 1 and
\* whose mixer byte was changed by a DigiDrum
C8_Witness ==
  /\ played >= 0 /\ Data(LastFrame, 1) >= 16
  /\ \E i \in MixerWrites : events[i].val # Data(LastFrame, 7)
  /\ \E j \in EvIdx : events[j] = Ev(0, 6, Data(LastFrame, 6), "base")

\* the mixer bits of voice v in byte b: <<tone, noise>>
VoiceBits(b, v) == <<Bit(b, v), Bit(b, v + 3)>>

RankClaimed(by) ==
  CASE by = "env" -> 0 [] by = "base" -> 1 [] by = "mixer" -> 2 [] by = "vol" -> 3
    [] OTHER -> 4
\* the place of an event in the order of the code
Rank(by) ==
  CASE by = "env" -> 0 [] by = "base" -> 1 [] by = "vol" -> 2 [] by = "mixer" -> 3
    [] OTHER -> 4
\* the registers of the base burst, in the order of their events
BaseRegs == SelectSeq(events, LAMBDA e : e.by = "base")

\* C10 as claimed: envelope writes, base registers 0..5, the mixer byte, the
\* plain volume writes, then the effect events.
C10_Original ==
  played >= 0 =>
    /\ \A i, j \in EvIdx : i < j => RankClaimed(events[i].by) <= RankClaimed(events[j].by)
    /\ [k \in 1..Len(BaseRegs) |-> BaseRegs[k].reg] = <<0, 1, 2, 3, 4, 5>>

\* C10 (amended): the t = 0 writes of a frame come in the order: envelope
\* period/shape writes, base registers 0..6, the plain volume writes of the
\* voices, the mixer byte, and only then the merged effect events.
C10_ZeroBlockOrder ==
  played >= 0 =>
    /\ \A i, j \in EvIdx : i < j => Rank(events[i].by) <= Rank(events[j].by)
    /\ \A i \in EvIdx : Rank(events[i].by) < 4 => events[i].t = 0
    /\ [k \in 1..Len(BaseRegs) |-> BaseRegs[k].reg] = <<0, 1, 2, 3, 4, 5, 6>>

\* a frame with a shape write, plain volume writes, and an effect event at t = 0
C10_Witness ==
  /\ played >= 0
  /\ \E i, j, k, m \in EvIdx :
       /\ events[i].by = "env" /\ events[i].reg = ENV_REG
       /\ events[j].by = "vol"
       /\ events[k].by = "mixer" /\ j < k
       /\ events[m].by = "dd" /\ events[m].t = 0

\* a call of produce_next_ay_frame on the player p
FreshStep(p) == ProduceFrame(p.ve, p.bz, p.cursor, p.ret)

\* The player after j calls of produce_next_ay_frame on a freshly constructed
\* copy of the song, with the events and the return value of the j-th call
RECURSIVE FreshRun(_)
FreshRun(j) ==
  IF j = 0
    THEN [ve |-> [i \in 0..2 |-> VoiceDefault], bz |-> SyncBuzzerDefault,
          cursor |-> 0, ret |-> FALSE, evs |-> <<>>]
    ELSE FreshStep(FreshRun(j - 1))

\* C11: the j-th call after reset() (j <= frames.len()) hands the same events
\* to rec and returns the same value as the j-th call on a freshly
\* constructed copy of the song.
C11_ReplayAfterReset ==
  (since_reset >= 1 /\ since_reset <= Len(frames)) =>
    /\ events = FreshRun(since_reset).evs
    /\ ret = FreshRun(since_reset).ret

\* C12: a reset() step (the only step that leaves since_reset at 0) ends with
\* cursor = 0, SidVoice and SinusSid inactive and DigiDrum at cur >= end on
\* every voice, and the buzzer inactive, and leaves frames, samples,
\* loop_frame and the frequencies unchanged.
C12_ResetStopsAll ==
  [][since_reset' = 0 =>
       /\ cursor' = 0
       /\ \A v \in 0..2 : ActiveOn(voice_effects', v) = {}
       /\ ~buzzer'.active
       /\ song_vars' = song_vars]_vars

\* after a reset() that came while the cursor was past frame 0, a SID voice
\* had run and a DigiDrum was in the middle of its sample
C12_Witness ==
  /\ since_reset = 0 /\ ncalls = 1 /\ Len(frames) = 2 /\ cursor = 0
  /\ \E v, w \in 0..2 :
       /\ voice_effects[v].dd.cur > 0 /\ voice_effects[v].dd.cur < Len(dd_samples.data)
       /\ voice_effects[v].dd.end = 0
       /\ voice_effects[w].sv.timer.step > 0 /\ ~voice_effects[w].sv.active

\* the events of unit "by" on the volume register of voice v, among evs
UnitEvents(evs, by, v) == SelectSeq(evs, LAMBDA e : e.by = by /\ e.reg = VOL_A_REG + v)
\* the effects the last call started on voice v
StartedOn(d, v) == {p \in d.started : p[2] = v}

Label(fx) == CASE fx = "SidVoice" -> "sv" [] fx = "SinusSid" -> "ss" [] fx = "SyncBuzz" -> "bz"
\* the plain volume writes for voice v among evs
PlainOf(evs, v) == SelectSeq(evs, LAMBDA e : e.by = "vol" /\ e.reg = VOL_A_REG + v)
\* the Sync Buzzer ticks among evs
BuzzerTicks(evs) == SelectSeq(evs, LAMBDA e : e.by = "bz")
\* the step is frame k+1 following frame k with no reset() in between
NextFrameStep == since_reset >= 1 /\ since_reset' = since_reset + 1

\* C14 as claimed: a SID voice or Sinus SID that frame k started on voice v
\* emits in frame k+1 only if frame k+1 starts it again, and otherwise frame
\* k+1 has a plain volume write for v; a Sync Buzzer that frame k started
\* ticks in frame k+1 only if frame k+1 starts it again.
C14_Original ==
  [][NextFrameStep =>
       /\ \A v \in 0..2 : \A fx \in {"SidVoice", "SinusSid"} :
            <<fx, v>> \in dispatched.started =>
              IF <<fx, v>> \in dispatched'.started
                THEN TRUE
                ELSE /\ UnitEvents(events', Label(fx), v) = <<>>
                     /\ PlainOf(events', v) # <<>>
       /\ (\E p \in dispatched.started : p[1] = "SyncBuzz") =>
            (BuzzerTicks(events') # <<>> => \E p \in dispatched'.started : p[1] = "SyncBuzz")
     ]_vars

\* C14 (amended): as claimed, but the plain volume write for v is there
\* exactly when no other unit of the voice emits in frame k+1, that is when
\* frame k+1 starts neither SID voice nor Sinus SID on v and no DigiDrum is
\* playing on v.
C14_TransientEffectsLastOneFrame ==
  [][NextFrameStep =>
       /\ \A v \in 0..2 : \A fx \in {"SidVoice", "SinusSid"} :
            <<fx, v>> \in dispatched.started =>
              IF <<fx, v>> \in dispatched'.started
                THEN TRUE
                ELSE /\ UnitEvents(events', Label(fx), v) = <<>>
                     /\ PlainOf(events', v) # <<>> <=>
                          /\ <<"SidVoice", v>> \notin dispatched'.started
                          /\ <<"SinusSid", v>> \notin dispatched'.started
                          /\ ~DigiDrumIsActive(dispatched'.ve[v].dd)
       /\ (\E p \in dispatched.started : p[1] = "SyncBuzz") =>
            (BuzzerTicks(events') # <<>> => \E p \in dispatched'.started : p[1] = "SyncBuzz")
     ]_vars

\* the second frame of a song starts nothing on a voice whose SID voice the
\* first frame started, and writes the plain volume there
C14_Witness ==
  /\ ncalls = 2 /\ since_reset = 2
  /\ \E v \in 0..2 :
       /\ voice_effects[v].sv.timer.step > 0
       /\ StartedOn(dispatched, v) = {}
       /\ PlainOf(events, v) # <<>>
       /\ UnitEvents(events, "sv", v) = <<>>

\* the step is one call of produce_next_ay_frame that returns
CallStep == ncalls' = ncalls + 1 /\ ~panicked' /\ ~hung'

\* C15: with loop_frame >= frames.len(), a call made with the cursor on the
\* last frame plays the last frame, returns true and leaves the cursor on the
\* last frame, so every call from the first last-frame call on does.
C15_LoopFrameClamped ==
  [][(loop_frame >= Len(frames) /\ CallStep /\ cursor = Len(frames) - 1) =>
       /\ played' = Len(frames) - 1
       /\ ret'
       /\ cursor' = Len(frames) - 1]_vars

\* the third call in a row on a two-frame song whose loop_frame is 7: the
\* second and the third both played the last frame
C15_Witness ==
  /\ Len(frames) = 2 /\ loop_frame >= Len(frames)
  /\ since_reset = 3 /\ played = 1 /\ ret /\ cursor = 1

\* the writes of the last call to register r, the Sync Buzzer ticks aside
WritesTo(r) == SelectSeq(events, LAMBDA e : e.reg = r /\ e.by # "bz")

\* C16: a frame whose byte 13 is 0xFF gives no write to register 13 (Sync
\* Buzzer ticks aside) for Ym3..Ym6 and no write to registers 11, 12, 13 for
\* Ym2; any other shape gives (13, shape) for Ym3..Ym6 and (11, byte 11),
\* (12, 0), (13, 0x10) for Ym2, all at t = 0.
C16_EnvelopeShape ==
  played >= 0 =>
    IF Data(LastFrame, ENV_REG) = 255
      THEN IF version = "Ym2"
             THEN \A r \in {ENV_PER_FINE_REG, ENV_PER_COARSE_REG, ENV_REG} : WritesTo(r) = <<>>
             ELSE WritesTo(ENV_REG) = <<>>
      ELSE IF version = "Ym2"
             THEN /\ WritesTo(ENV_PER_FINE_REG) =
                       << Ev(0, ENV_PER_FINE_REG, Data(LastFrame, ENV_PER_FINE_REG), "env") >>
                  /\ WritesTo(ENV_PER_COARSE_REG) = << Ev(0, ENV_PER_COARSE_REG, 0, "env") >>
                  /\ WritesTo(ENV_REG) = << Ev(0, ENV_REG, 16, "env") >>
             ELSE WritesTo(ENV_REG) = << Ev(0, ENV_REG, Data(LastFrame, ENV_REG), "env") >>

\* a Ym6 call played a frame of shape 0xFF that starts effects, and wrote
\* the envelope period but not the shape
C16_Witness ==
  /\ played >= 0 /\ version = "Ym6"
  /\ Data(LastFrame, ENV_REG) = 255
  /\ dispatched.started # {}
  /\ WritesTo(ENV_PER_COARSE_REG) # <<>>
  /\ WritesTo(ENV_REG) = <<>>

\* C17: a Ym3 song never starts an effect, whatever the frame bytes: every
\* event of every call has t = 0, every voice gets exactly one plain volume
\* write per frame, and registers 11 and 12 are written with frame bytes 11
\* and 12 in every frame.
C17_Ym3NoEffects ==
  (version = "Ym3" /\ played >= 0) =>
    /\ dispatched.started = {}
    /\ \A v \in 0..2 : ActiveOn(voice_effects, v) = {}
    /\ ~buzzer.active
    /\ \A i \in EvIdx : events[i].t = 0
    /\ \A v \in 0..2 :
         PlainOf(events, v) = << Ev(0, VOL_A_REG + v, vol(LastFrame, VOL_A_REG + v), "vol") >>
    /\ WritesTo(ENV_PER_FINE_REG) =
         << Ev(0, ENV_PER_FINE_REG, Data(LastFrame, ENV_PER_FINE_REG), "env") >>
    /\ WritesTo(ENV_PER_COARSE_REG) =
         << Ev(0, ENV_PER_COARSE_REG, Data(LastFrame, ENV_PER_COARSE_REG), "env") >>

\* the second call of a Ym3 song played a frame whose bytes 1 and 3 select a
\* voice in their high nibbles and whose volume byte of voice C has bit 7 set
C17_Witness ==
  /\ version = "Ym3" /\ since_reset = 2 /\ played = 1
  /\ FxChannel(fx0(LastFrame)) # 0
  /\ FxChannel(fx1(LastFrame)) # 0
  /\ BitAnd(Data(LastFrame, VOL_C_REG), 128) = 128
  /\ Len(events) = 14

\* the sample index of a Ym2 frame and whether the frame asks for a DigiDrum
Ym2Sample(frame) == BitAnd(Data(frame, VOL_C_REG), 127)
Ym2Request(frame) ==
  /\ BitAnd(Data(frame, VOL_C_REG), 128) = 128
  /\ Ym2Sample(frame) < 40
  /\ Data(frame, ENV_PER_COARSE_REG) # 0

\* C18: a Ym2 frame whose byte 10 has bit 7 set, with s = byte 10 & 0x7f < 40
\* and byte 12 # 0, starts the DigiDrum of voice C over
\* [YM2_SAMPLE_ENDS[s-1] (0 for s = 0), YM2_SAMPLE_ENDS[s]) with the step of
\* divisor 4 * byte 12, and the mixer byte of the frame has the tone and noise
\* bits of voice C set; any other Ym2 frame starts no DigiDrum.
C18_Ym2DigiDrum ==
  (version = "Ym2" /\ played >= 0) =>
    IF Ym2Request(LastFrame)
      THEN /\ dispatched.started = {<<"DigiDrum", 2>>}
           /\ dispatched.ve[2].dd.cur =
                (IF Ym2Sample(LastFrame) = 0 THEN 0 ELSE YM2_SAMPLE_ENDS[Ym2Sample(LastFrame)])
           /\ dispatched.ve[2].dd.end = YM2_SAMPLE_ENDS[Ym2Sample(LastFrame) + 1]
           /\ dispatched.ve[2].dd.timer.step =
                4 * Data(LastFrame, ENV_PER_COARSE_REG) * frame_frequency
           /\ dispatched.ve[2].dd.timer.current = 0
           /\ MixerWrites # {}
           /\ \A i \in MixerWrites : VoiceBits(events[i].val, 2) = <<1, 1>>
      ELSE dispatched.started = {}

\* a Ym2 call played a frame that asks for sample 20 with byte 12 = 255 and
\* whose mixer byte has the bits of voice C clear; the DigiDrum emitted
C18_Witness ==
  /\ version = "Ym2" /\ played >= 0
  /\ Ym2Request(LastFrame) /\ Ym2Sample(LastFrame) = 20
  /\ VoiceBits(Data(LastFrame, MIXER_REG), 2) = <<0, 0>>
  /\ UnitEvents(events, "dd", 2) # <<>>

\* A control byte as the frame layout words it: bits 5..4 the voice (0 for
\* none, else voice + 1), bits 7..6 the effect type
CtlVoice(b) == ((b \div 16) % 4) - 1
CtlType(b) == << "SidVoice", "DigiDrum", "SinusSid", "SyncBuzz" >>[(b \div 64) + 1]
CtlByte(f, k) == IF k = 0 THEN Data(f, 1) ELSE Data(f, 3)
CtlDiv(f, k) == IF k = 0 THEN timer_divisor0(f) ELSE timer_divisor1(f)
\* control k of frame f selects a voice and has a non-zero divisor
Asked(f, k) == CtlVoice(CtlByte(f, k)) >= 0 /\ CtlDiv(f, k) # 0
VolByte(f, v) == Data(f, VOL_A_REG + v)
\* the range of sample s in the bank of the song
RangeStart(s) == IF s = 0 THEN 0 ELSE dd_samples_ends[s]
RangeEnd(s) == dd_samples_ends[s + 1]

\* the SidVoice new was started from old by control 0 of frame f on voice v
SidStarted(f, v, old, new) ==
  /\ new.active
  /\ new.vol = VolByte(f, v) % 16
  /\ new.timer.step = CtlDiv(f, 0) * frame_frequency
  /\ IF (Data(f, 1) \div 64) % 2 = 1
       THEN new.timer.current = 0 /\ new.cur = FALSE
       ELSE new.timer.current = old.timer.current /\ new.cur = old.cur
\* the DigiDrum new was started by control k of frame f on voice v
DdStarted(f, k, v, new) ==
  /\ new.cur = RangeStart(VolByte(f, v) % 32)
  /\ new.end = RangeEnd(VolByte(f, v) % 32)
  /\ new.timer.step = CtlDiv(f, k) * frame_frequency
  /\ new.timer.current = 0

\* what play_ym5_frame made of the units pre for frame f: d is the state
\* after the effects were started
Ym5Dispatch(f, pre, d) ==
  /\ d.started = (IF Asked(f, 0) THEN {<< "SidVoice", CtlVoice(Data(f, 1)) >>} ELSE {})
                  \cup (IF Asked(f, 1) THEN {<< "DigiDrum", CtlVoice(Data(f, 3)) >>} ELSE {})
  /\ ~d.bz.active
  /\ \A v \in 0..2 :
       /\ ~d.ve[v].ss.active
       /\ IF Asked(f, 0) /\ v = CtlVoice(Data(f, 1))
            THEN SidStarted(f, v, pre[v].sv, d.ve[v].sv)
            ELSE ~d.ve[v].sv.active
       /\ IF Asked(f, 1) /\ v = CtlVoice(Data(f, 3))
            THEN DdStarted(f, 1, v, d.ve[v].dd)
            ELSE d.ve[v].dd = pre[v].dd

\* C19: in a Ym4/Ym5 song the control of byte 1 starts only a SidVoice (on
\* voice bits 5..4 - 1, with the low 4 bits of the volume byte of the voice
\* and the divisor of bytes 6 and 14) and the control of byte 3 only a
\* DigiDrum (sample = low 5 bits of the volume byte of the voice, divisor of
\* bytes 8 and 15); bit 6 of byte 1 set puts the timer of the SidVoice to 0
\* and its toggle to the initial value before the start, bit 6 clear leaves
\* both as they were; bits 7..6 of byte 3 change nothing.
C19_Ym5Controls ==
  [][(version \in {"Ym4", "Ym5"} /\ CallStep) =>
       Ym5Dispatch(frames[cursor + 1], voice_effects, dispatched')]_vars

\* the second call of a Ym5 song started the SidVoice with bit 6 of byte 1
\* clear on a timer the first call left off zero, and a DigiDrum through a
\* byte 3 whose bits 7..6 are both set
C19_Witness ==
  /\ version = "Ym5" /\ ncalls = 2 /\ since_reset = 2
  /\ Asked(LastFrame, 0) /\ Asked(LastFrame, 1)
  /\ (Data(LastFrame, 1) \div 64) % 2 = 0
  /\ Data(LastFrame, 3) \div 64 = 3
  /\ dispatched.started =
       {<< "SidVoice", CtlVoice(Data(LastFrame, 1)) >>, << "DigiDrum", CtlVoice(Data(LastFrame, 3)) >>}
  /\ dispatched.ve[CtlVoice(Data(LastFrame, 1))].sv.timer.current # 0

\* the unit of effect fx on voice v is as started with the volume byte vb
\* and the timer step
UnitStarted(d, fx, v, f, k) ==
  CASE fx = "SidVoice" ->
         /\ d.ve[v].sv.active
         /\ d.ve[v].sv.vol = VolByte(f, v) % 16
         /\ d.ve[v].sv.timer.step = CtlDiv(f, k) * frame_frequency
    [] fx = "SinusSid" ->
         /\ d.ve[v].ss.active
         /\ d.ve[v].ss.amplitude = VolByte(f, v) % 16
         /\ d.ve[v].ss.timer.step = CtlDiv(f, k) * frame_frequency
    [] fx = "DigiDrum" -> DdStarted(f, k, v, d.ve[v].dd)
    [] fx = "SyncBuzz" ->
         /\ d.bz.active
         /\ d.bz.shape = VolByte(f, v) % 16
         /\ d.bz.timer.step = CtlDiv(f, k) * frame_frequency
\* the two controls start the same unit: the second start replaces the first
SameUnit(b0, b1) ==
  /\ CtlType(b0) = CtlType(b1)
  /\ CtlType(b0) = "SyncBuzz" \/ CtlVoice(b0) = CtlVoice(b1)
\* the effects frame f asks for
AskedSet(f) ==
  {<< CtlType(CtlByte(f, k)), CtlVoice(CtlByte(f, k)) >> : k \in {j \in {0, 1} : Asked(f, j)}}

\* C20: in a Ym6 song each of the two controls selects on its own a voice
\* (bits 5..4: 00 none, 01/10/11 voice A/B/C) and an effect (bits 7..6: 00 SID
\* voice, 01 DIGI-DRUM, 10 Sinus SID, 11 Sync Buzzer) and, given a non-zero
\* divisor, the effect is started on the voice, for all 16 values; nothing
\* else is started.
C20_Ym6Controls ==
  (version = "Ym6" /\ played >= 0) =>
    /\ dispatched.started = AskedSet(LastFrame)
    /\ \A k \in {0, 1} :
         (/\ Asked(LastFrame, k)
          /\ ~(k = 0 /\ Asked(LastFrame, 1) /\ SameUnit(Data(LastFrame, 1), Data(LastFrame, 3))))
           => UnitStarted(dispatched, CtlType(CtlByte(LastFrame, k)),
                          CtlVoice(CtlByte(LastFrame, k)), LastFrame, k)
    /\ \A v \in 0..2 :
         /\ dispatched.ve[v].sv.active => << "SidVoice", v >> \in AskedSet(LastFrame)
         /\ dispatched.ve[v].ss.active => << "SinusSid", v >> \in AskedSet(LastFrame)
    /\ dispatched.bz.active => \E v \in 0..2 : << "SyncBuzz", v >> \in AskedSet(LastFrame)

\* a Ym6 call played a frame whose byte 1 asks for the Sync Buzzer through
\* voice B and whose byte 3 asks for a Sinus SID on voice C, and both emitted
C20_Witness ==
  /\ version = "Ym6" /\ played >= 0
  /\ AskedSet(LastFrame) = {<< "SyncBuzz", 1 >>, << "SinusSid", 2 >>}
  /\ CtlType(Data(LastFrame, 1)) = "SyncBuzz"
  /\ BuzzerTicks(events) # <<>>
  /\ UnitEvents(events, "ss", 2) # <<>>

\* control k of frame f asks for the Sync Buzzer
AsksBuzzer(f, k) == Asked(f, k) /\ CtlType(CtlByte(f, k)) = "SyncBuzz"
\* what the claim says of the buzzer control k of the frame the last call
\* played: the unit, its ticks and the plain volume write of the voice
BuzzerUnit(f, k) ==
  /\ dispatched.bz.active
  /\ dispatched.bz.shape = VolByte(f, CtlVoice(CtlByte(f, k))) % 16
  /\ dispatched.bz.timer.step = CtlDiv(f, k) * frame_frequency
BuzzerEvents(f, k) ==
  /\ \A i \in EvIdx : events[i].by = "bz" =>
       /\ events[i].reg = ENV_REG
       /\ events[i].val = VolByte(f, CtlVoice(CtlByte(f, k))) % 16
  /\ ActiveOn(dispatched.ve, CtlVoice(CtlByte(f, k))) = {} =>
       PlainOf(events, CtlVoice(CtlByte(f, k))) =
         << Ev(0, VOL_A_REG + CtlVoice(CtlByte(f, k)),
               VolByte(f, CtlVoice(CtlByte(f, k))) % 32, "vol") >>

\* C21 as claimed: a Ym6 frame that selects the Sync Buzzer on voice v with
\* a non-zero divisor d runs the buzzer with shape = low 4 bits of the volume
\* byte of v and the step of d, every buzzer tick is (t, 13, shape), and v
\* has its plain volume write at t = 0 unless another effect is active on v.
C21_Original ==
  (version = "Ym6" /\ played >= 0) =>
    \A k \in {0, 1} : AsksBuzzer(LastFrame, k) =>
      BuzzerUnit(LastFrame, k) /\ BuzzerEvents(LastFrame, k)

\* the control whose buzzer start is the last of the frame
LastBuzzer(f, k) == AsksBuzzer(f, k) /\ (k = 0 => ~AsksBuzzer(f, 1))

\* C21 (amended): as claimed for the control that selects the Sync Buzzer
\* last in the frame; a buzzer control of byte 1 that is followed by a buzzer
\* control of byte 3 leaves the buzzer active, and still keeps the plain
\* volume write of its voice unless another effect is active on it.
C21_SyncBuzzer ==
  (version = "Ym6" /\ played >= 0) =>
    \A k \in {0, 1} : AsksBuzzer(LastFrame, k) =>
      /\ dispatched.bz.active
      /\ LastBuzzer(LastFrame, k) => BuzzerUnit(LastFrame, k) /\ BuzzerEvents(LastFrame, k)
      /\ ActiveOn(dispatched.ve, CtlVoice(CtlByte(LastFrame, k))) = {} =>
           PlainOf(events, CtlVoice(CtlByte(LastFrame, k))) # <<>>

\* a Ym6 call played a frame whose byte 1 alone selects the Sync Buzzer, on
\* voice A: the buzzer ticked more than once with shape 1 and voice A has
\* its plain volume write
C21_Witness ==
  /\ version = "Ym6" /\ played >= 0
  /\ LastBuzzer(LastFrame, 0) /\ CtlVoice(Data(LastFrame, 1)) = 0
  /\ Len(BuzzerTicks(events)) >= 2
  /\ \A i \in EvIdx : events[i].by = "bz" => events[i].val = 1
  /\ PlainOf(events, 0) # <<>>

\* the predivisors by the code in bits 7..5 of the pre-divisor byte
PredivTable == << 0, 4, 10, 16, 50, 64, 100, 200 >>
\* pre-divisor bytes of every code, with low bits clear, mixed and set, and
\* counts from 0 to 255
PredivBytes == {32 * c + l : c \in 0..7, l \in {0, 17, 31}}
CountBytes == {0, 1, 100, 255}

\* the effects the controls of frame f start, by the version of the song
StartSet(f) ==
  IF version = "Ym6" THEN AskedSet(f)
  ELSE (IF Asked(f, 0) THEN {<< "SidVoice", CtlVoice(Data(f, 1)) >>} ELSE {})
       \cup (IF Asked(f, 1) THEN {<< "DigiDrum", CtlVoice(Data(f, 3)) >>} ELSE {})
\* the units that no control of frame f starts are as the per-frame stop
\* leaves the units pre and prebz
OthersUntouched(f, pre, prebz, d) ==
  /\ d.started = StartSet(f)
  /\ \A v \in 0..2 :
       /\ << "SidVoice", v >> \notin StartSet(f) => d.ve[v].sv = Stop(pre[v].sv)
       /\ << "SinusSid", v >> \notin StartSet(f) => d.ve[v].ss = Stop(pre[v].ss)
       /\ << "DigiDrum", v >> \notin StartSet(f) => d.ve[v].dd = pre[v].dd
  /\ (\A v \in 0..2 : << "SyncBuzz", v >> \notin StartSet(f)) => d.bz = Stop(prebz)

\* C22: the timer divisor is prediv * div8 with prediv looked up from bits
\* 7..5 of the pre-divisor byte in 0, 4, 10, 16, 50, 64, 100, 200 (the
\* function on PredivBytes x CountBytes, at the first call of every song, and
\* the divisors of the frame of every call); a control whose divisor is zero
\* starts nothing and changes no effect unit.
C22_TimerDivisor ==
  [][/\ ncalls = 0 =>
          \A b \in PredivBytes : \A c \in CountBytes :
            calculate_timer_divisor(b, c) = PredivTable[(b \div 32) + 1] * c
     /\ (version \in {"Ym4", "Ym5", "Ym6"} /\ ncalls' = ncalls + 1 /\ ~panicked') =>
          /\ \A k \in {0, 1} :
               CtlDiv(frames[cursor + 1], k) =
                 PredivTable[(Data(frames[cursor + 1], IF k = 0 THEN 6 ELSE 8) \div 32) + 1]
                   * Data(frames[cursor + 1], 14 + k)
          /\ OthersUntouched(frames[cursor + 1], voice_effects, buzzer, dispatched')
    ]_vars

\* the second call of a Ym6 song whose byte 3 selects the Sync Buzzer with
\* predivisor code 000 and whose byte 1 started a SID voice with bit 6 set:
\* the buzzer is not active and its timer has no step
C22_Witness ==
  /\ version = "Ym6" /\ ncalls = 2
  /\ CtlVoice(Data(LastFrame, 3)) >= 0 /\ CtlType(Data(LastFrame, 3)) = "SyncBuzz"
  /\ Data(LastFrame, 8) \div 32 = 0 /\ Data(LastFrame, 15) = 255
  /\ Asked(LastFrame, 0)
  /\ dispatched.started = {<< CtlType(Data(LastFrame, 1)), CtlVoice(Data(LastFrame, 1)) >>}
  /\ ~dispatched.bz.active /\ dispatched.bz.timer.step = 0

(* ---- parse.rs ---- *)
\* io::Result: Err with the kind and the message of the io::Error, or Ok
Err(kind, msg) == [ok |-> FALSE, kind |-> kind, msg |-> msg]
InvalidData(msg) == Err("InvalidData", msg)
\* read_exact on a stream that ends before the buffer is full
Eof == Err("UnexpectedEof", "failed to fill whole buffer")
Premature == Err("UnexpectedEof", "file ended prematurely")
Ok(song) == [ok |-> TRUE, song |-> song]

\* u32::from_be_bytes, u16::from_be_bytes
RECURSIVE from_be_bytes(_)
from_be_bytes(s) ==
  IF s = <<>> THEN 0 ELSE from_be_bytes(SubSeq(s, 1, Len(s) - 1)) * 256 + s[Len(s)]

\* The readers take the bytes b of the stream and the count pos of the bytes
\* consumed, and give the value read with the new count, or the error.
read_exact(b, pos, n) ==
  IF pos + n <= Len(b)
    THEN [ok |-> TRUE, val |-> SubSeq(b, pos + 1, pos + n), pos |-> pos + n]
    ELSE Eof
read_dword(b, pos) ==
  IF pos + 4 <= Len(b)
    THEN [ok |-> TRUE, val |-> from_be_bytes(SubSeq(b, pos + 1, pos + 4)), pos |-> pos + 4]
    ELSE Eof
read_word(b, pos) ==
  IF pos + 2 <= Len(b)
    THEN [ok |-> TRUE, val |-> from_be_bytes(SubSeq(b, pos + 1, pos + 2)), pos |-> pos + 2]
    ELSE Eof

\* read_until(0, ..): the count of bytes consumed up to and with the first 0
\* byte after pos, or up to the end of the stream
RECURSIVE read_until_zero(_, _)
read_until_zero(b, pos) ==
  IF pos >= Len(b) THEN pos
  ELSE IF b[pos + 1] = 0 THEN pos + 1
  ELSE read_until_zero(b, pos + 1)
\* read_cstr: only the position matters, the text is not kept by the model
read_cstr(b, pos) ==
  IF pos >= Len(b) THEN Premature ELSE [ok |-> TRUE, pos |-> read_until_zero(b, pos)]
NextCstr(b, r) == IF r.ok THEN read_cstr(b, r.pos) ELSE r
read_song_meta(b, pos) == NextCstr(b, NextCstr(b, read_cstr(b, pos)))

\* the loop body that stores the length of the sample as its end
SampleRead_own_length(b, acc, i, len) ==
  IF ~len.ok THEN len
  ELSE IF len.pos + len.val > Len(b) THEN Premature
  ELSE [ok |-> TRUE,
        data |-> acc.data \o SubSeq(b, len.pos + 1, len.pos + len.val),
        ends |-> [acc.ends EXCEPT ![i + 1] = len.val],
        pos |-> len.pos + len.val]

\* read_digidrum_samples: the loop over sample_ends[0..nsamples], sample i
SampleRead(b, acc, i, len) ==
  IF ~len.ok THEN len
  ELSE IF len.pos + len.val > Len(b) THEN Premature
  ELSE [ok |-> TRUE,
        data |-> acc.data \o SubSeq(b, len.pos + 1, len.pos + len.val),
        ends |-> [acc.ends EXCEPT ![i + 1] = Len(acc.data) + len.val],
        pos |-> len.pos + len.val]
RECURSIVE SamplesLoop(_, _, _, _)
SamplesLoop(b, acc, i, nsamples) ==
  IF ~acc.ok \/ i = nsamples THEN acc
  ELSE SamplesLoop(b, SampleRead(b, acc, i, read_dword(b, acc.pos)), i + 1, nsamples)
\* the conversion of the samples to 4 bits
SampleTo4Bit(t, song_attrs) ==
  IF Bit(song_attrs, 2) = 1 THEN t
  ELSE IF Bit(song_attrs, 1) = 1 THEN ((t + 128) % 256) \div 16
  ELSE t \div 16
SamplesConverted(r, song_attrs) ==
  IF r.ok THEN [r EXCEPT !.data = [k \in 1..Len(@) |-> SampleTo4Bit(@[k], song_attrs)]]
  ELSE r
read_digidrum_samples(b, pos, nsamples, song_attrs) ==
  SamplesConverted(
    SamplesLoop(b, [ok |-> TRUE, data |-> <<>>, ends |-> [i \in 1..MAX_DD_SAMPLES |-> 0],
                    pos |-> pos], 0, nsamples),
    song_attrs)

\* YmFrame::default()
YmFrameDefault == [r \in 1..16 |-> 0]

\* read_non_interleaved_frames: read_exact of data[0..regs] frame by frame
RECURSIVE FillFrames(_, _, _, _, _)
FillFrames(acc, i, regs, b, nframes) ==
  IF i = nframes THEN acc
  ELSE IF acc.pos + regs > Len(b) THEN Eof
  ELSE FillFrames([ok |-> TRUE,
                   frames |-> [acc.frames EXCEPT
                                 ![i + 1] = [r \in 1..16 |-> IF r <= regs THEN b[acc.pos + r] ELSE 0]],
                   pos |-> acc.pos + regs], i + 1, regs, b, nframes)
\* read_interleaved_frames: for register r the frames are zipped with the
\* bytes of the stream; the zip ends with the frames or with the stream
RECURSIVE FillRegister(_, _, _, _, _)
FillRegister(acc, r, i, b, nframes) ==
  IF i = nframes \/ acc.pos >= Len(b) THEN acc
  ELSE FillRegister([ok |-> TRUE,
                     frames |-> [acc.frames EXCEPT ![i + 1][r + 1] = b[acc.pos + 1]],
                     pos |-> acc.pos + 1], r, i + 1, b, nframes)
RECURSIVE FillRegisters(_, _, _, _, _)
FillRegisters(acc, r, regs, b, nframes) ==
  IF r = regs THEN acc
  ELSE FillRegisters(FillRegister(acc, r, 0, b, nframes), r + 1, regs, b, nframes)
\* read_interleaved_frames that fills frame after frame
read_interleaved_frames_by_frame(nframes, regs, b, pos) ==
  FillFrames([ok |-> TRUE, frames |-> [i \in 1..nframes |-> YmFrameDefault], pos |-> pos],
             0, regs, b, nframes)

read_interleaved_frames(nframes, regs, b, pos) ==
  FillRegisters([ok |-> TRUE, frames |-> [i \in 1..nframes |-> YmFrameDefault], pos |-> pos],
                0, regs, b, nframes)

\* read_non_interleaved_frames
read_non_interleaved_frames(nframes, regs, b, pos) ==
  FillFrames([ok |-> TRUE, frames |-> [i \in 1..nframes |-> YmFrameDefault], pos |-> pos],
             0, regs, b, nframes)

\* YmSong::new: the fields of the song the model keeps
YmSongNew(ver, frs, lf) ==
  [version |-> ver, frames |-> frs, loop_frame |-> lf,
   chipset_frequency |-> DEFAULT_CHIPSET_FREQUENCY,
   frame_frequency |-> DEFAULT_FRAME_FREQUENCY,
   dd_samples |-> [ym2bank |-> FALSE, data |-> <<>>],
   dd_samples_ends |-> [i \in 1..MAX_DD_SAMPLES |-> 0]]

\* parse_ym3
Ym3WithLoop(ver, fr, lp) == IF lp.ok THEN Ok(YmSongNew(ver, fr.frames, lp.val)) ELSE lp
Ym3AfterFrames(ver, b, includes_loop, fr) ==
  IF includes_loop THEN Ym3WithLoop(ver, fr, read_dword(b, fr.pos))
  ELSE Ok(YmSongNew(ver, fr.frames, 0))
\* parse_ym3 without the check for an empty song
parse_ym3_any_count(ver, b, pos, size) ==
  IF size % 14 \notin {0, 4} THEN InvalidData("wrong file size")
  ELSE Ym3AfterFrames(ver, b, size % 14 = 4, read_interleaved_frames(size \div 14, 14, b, pos))

\* parse_ym3 proper
parse_ym3(ver, b, pos, size) ==
  IF size % 14 \notin {0, 4} THEN InvalidData("wrong file size")
  ELSE IF size \div 14 = 0 THEN InvalidData("no YM data")
  ELSE Ym3AfterFrames(ver, b, size % 14 = 4, read_interleaved_frames(size \div 14, 14, b, pos))

\* parse_ym2: the song of parse_ym3 with the built-in sample bank
WithYm2Bank(r) ==
  IF r.ok THEN Ok([r.song EXCEPT !.dd_samples = [ym2bank |-> TRUE, data |-> <<>>]]) ELSE r
parse_ym2(b, pos, size) == WithYm2Bank(parse_ym3("Ym2", b, pos, size))

\* b"LeOnArD!"
LEONARD == << 76, 101, 79, 110, 65, 114, 68, 33 >>

\* parse_ym4_common
CommonSamples(nframes, song_attrs, ns) ==
  IF ~ns.ok THEN ns
  ELSE IF ns.val > MAX_DD_SAMPLES THEN InvalidData("too many digi-drum samples")
  ELSE [ok |-> TRUE, nframes |-> nframes, song_attrs |-> song_attrs,
        dd_nsamples |-> ns.val, pos |-> ns.pos]
CommonAttrs(b, nframes, at) ==
  IF ~at.ok THEN at ELSE CommonSamples(nframes, at.val % 8, read_word(b, at.pos))
CommonFrames(b, nf) ==
  IF ~nf.ok THEN nf
  ELSE IF nf.val = 0 THEN InvalidData("no YM data")
  ELSE CommonAttrs(b, nf.val, read_dword(b, nf.pos))
CommonSignature(b, sig) ==
  IF ~sig.ok THEN sig
  ELSE IF sig.val # LEONARD THEN InvalidData("unrecognized file verify signature")
  ELSE CommonFrames(b, read_dword(b, sig.pos))
parse_ym4_common(b, pos) == CommonSignature(b, read_exact(b, pos, 8))

\* The tail parse_ym4 and parse_ym5 share: samples, meta, frames, end tag
\* (read_song_end_tag only warns), then the song
Ym4Song(ver, chipset, freq, lf, smp, fr) ==
  IF ~fr.ok THEN fr
  ELSE Ok([YmSongNew(ver, fr.frames, lf) EXCEPT
             !.dd_samples = [ym2bank |-> FALSE, data |-> smp.data],
             !.dd_samples_ends = smp.ends,
             !.chipset_frequency = chipset,
             !.frame_frequency = freq])
Ym4Frames(ver, b, c, chipset, freq, lf, smp, meta) ==
  IF ~meta.ok THEN meta
  ELSE Ym4Song(ver, chipset, freq, lf, smp,
               IF Bit(c.song_attrs, 0) = 1
                 THEN read_interleaved_frames(c.nframes, 16, b, meta.pos)
                 ELSE read_non_interleaved_frames(c.nframes, 16, b, meta.pos))
Ym4Meta(ver, b, c, chipset, freq, lf, smp) ==
  IF ~smp.ok THEN smp
  ELSE Ym4Frames(ver, b, c, chipset, freq, lf, smp, read_song_meta(b, smp.pos))
Ym4Samples(ver, b, c, chipset, freq, lf, pos) ==
  Ym4Meta(ver, b, c, chipset, freq, lf,
          read_digidrum_samples(b, pos, c.dd_nsamples, c.song_attrs))

\* parse_ym4
Ym4Loop(b, c, lp) ==
  IF ~lp.ok THEN lp
  ELSE Ym4Samples("Ym4", b, c, DEFAULT_CHIPSET_FREQUENCY, DEFAULT_FRAME_FREQUENCY,
                  lp.val, lp.pos)
Ym4Common(b, c) == IF ~c.ok THEN c ELSE Ym4Loop(b, c, read_dword(b, c.pos))
parse_ym4(b, pos) == Ym4Common(b, parse_ym4_common(b, pos))

\* parse_ym5
Ym5Reserved(ver, b, c, chipset, freq, lf, rs) ==
  IF ~rs.ok THEN rs
  ELSE IF rs.val # 0 THEN InvalidData("unknown additional header data")
  ELSE Ym4Samples(ver, b, c, chipset, freq, lf, rs.pos)
Ym5Loop(ver, b, c, chipset, freq, lp) ==
  IF ~lp.ok THEN lp
  ELSE Ym5Reserved(ver, b, c, chipset, freq, lp.val, read_word(b, lp.pos))
\* the check of the frequencies that lets a frame frequency of 0 pass
Ym5Frequency_any_frame(ver, b, c, chipset, ff) ==
  IF ~ff.ok THEN ff
  ELSE IF chipset = 0 THEN InvalidData("chipset period must not be 0")
  ELSE Ym5Loop(ver, b, c, chipset, ff.val, read_dword(b, ff.pos))

Ym5Frequency(ver, b, c, chipset, ff) ==
  IF ~ff.ok THEN ff
  ELSE IF chipset = 0 THEN InvalidData("chipset period must not be 0")
  ELSE IF ff.val = 0 THEN InvalidData("frame period must not be 0")
  ELSE Ym5Loop(ver, b, c, chipset, ff.val, read_dword(b, ff.pos))
Ym5Chipset(ver, b, c, cf) ==
  IF ~cf.ok THEN cf ELSE Ym5Frequency(ver, b, c, cf.val, read_word(b, cf.pos))
Ym5Common(ver, b, c) == IF ~c.ok THEN c ELSE Ym5Chipset(ver, b, c, read_dword(b, c.pos))
parse_ym5(ver, b, pos) == Ym5Common(ver, b, parse_ym4_common(b, pos))

\* the file signatures
IdentYm2 == << 89, 77, 50, 33 >>
IdentYm3 == << 89, 77, 51, 33 >>
IdentYm3b == << 89, 77, 51, 98 >>
IdentYm4 == << 89, 77, 52, 33 >>
IdentYm5 == << 89, 77, 53, 33 >>
IdentYm6 == << 89, 77, 54, 33 >>

\* parse_ym
ParseIdent(b, file_len, ident) ==
  IF ~ident.ok THEN ident
  ELSE CASE ident.val = IdentYm2 -> parse_ym2(b, ident.pos, file_len - 4)
         [] ident.val \in {IdentYm3, IdentYm3b} -> parse_ym3("Ym3", b, ident.pos, file_len - 4)
         [] ident.val = IdentYm4 -> parse_ym4(b, ident.pos)
         [] ident.val = IdentYm5 -> parse_ym5("Ym5", b, ident.pos)
         [] ident.val = IdentYm6 -> parse_ym5("Ym6", b, ident.pos)
         [] OTHER -> InvalidData("unrecognized file signature")
parse_ym(b, file_len) == ParseIdent(b, file_len, read_exact(b, 0, 4))

\* YmSong::parse_unpacked on a stream at position 0: file_len is its length
parse_unpacked(b) == parse_ym(b, Len(b))

(* ---- the files the parser is run on ---- *)
\* big-endian words and double words, as the files carry them
WordBE(n) == << n \div 256, n % 256 >>
DwordBE(n) == << n \div 16777216, (n \div 65536) % 256, (n \div 256) % 256, n % 256 >>
\* n bytes of register data, all different for n up to 256
Body(n, seed) == [k \in 1..n |-> (k * seed + 5) % 256]
\* b"End!"
EndTag == << 69, 110, 100, 33 >>
\* the DIGI-DRUM block: for each sample its length and its bytes
RECURSIVE SampleBlock(_)
SampleBlock(bank) ==
  IF bank = <<>> THEN <<>>
  ELSE DwordBE(Len(Head(bank))) \o Head(bank) \o SampleBlock(Tail(bank))
\* title "T", no author, no comments
MetaBlock == << 84, 0, 0, 0 >>

\* YM2!, YM3! and YM3b files: the signature and the body
Ym3Sizes == {0, 4, 5, 13, 14, 18, 27, 28, 32}
\* a body of n bytes; one of 14 * k + 4 bytes ends with the loop frame
Ym3Body(n, seed, lf) ==
  IF n % 14 = 4 THEN Body(n - 4, seed) \o DwordBE(lf) ELSE Body(n, seed)
Ym3Files ==
  {id \o Ym3Body(n, seed, lf) :
     id \in {IdentYm2, IdentYm3, IdentYm3b}, n \in Ym3Sizes, seed \in {7, 11}, lf \in LoopFrames}

\* YM4! files
Ym4File(nframes, attrs, ndecl, bank, lf) ==
  IdentYm4 \o LEONARD \o DwordBE(nframes) \o DwordBE(attrs) \o WordBE(ndecl)
    \o DwordBE(lf) \o SampleBlock(bank) \o MetaBlock \o Body(16 * nframes, 7) \o EndTag
\* YM5! and YM6! files
Ym5File(id, nframes, attrs, ndecl, bank, chipset, freq, lf, reserved) ==
  id \o LEONARD \o DwordBE(nframes) \o DwordBE(attrs) \o WordBE(ndecl)
    \o DwordBE(chipset) \o WordBE(freq) \o DwordBE(lf) \o WordBE(reserved)
    \o SampleBlock(bank) \o MetaBlock \o Body(16 * nframes, 7) \o EndTag

\* header values: frame counts, attribute words (INTERLEAVED 1, DIGIDRUM_SIGNED
\* 2, DIGIDRUM_4BIT 4, and a bit that is no attribute), sample banks, the
\* sample count the header declares for a bank
FrameCounts == 0..MaxFrames
AttrWords == {0, 1, 2, 13}
ParseBanks == { <<>>, << <<16, 200, 130>> >>, << <<>>, <<255, 7>> >>,
                << <<16, 32>>, <<>>, <<128>> >> }
Declared(bank) == {Len(bank), MAX_DD_SAMPLES + 1}
Ym4Files ==
  {Ym4File(n, a, d[2], d[1], lf) :
     n \in FrameCounts, a \in AttrWords, lf \in LoopFrames,
     d \in UNION {{<< bank, nd >> : nd \in Declared(bank)} : bank \in ParseBanks}}
Ym5Files ==
  {Ym5File(h[1], n, a, d[2], d[1], h[2], h[3], 7, h[4]) :
     n \in FrameCounts, a \in AttrWords,
     h \in {IdentYm5, IdentYm6} \X {0, DEFAULT_CHIPSET_FREQUENCY} \X {0, DEFAULT_FRAME_FREQUENCY} \X {0, 1},
     d \in UNION {{<< bank, nd >> : nd \in Declared(bank)} : bank \in ParseBanks}}
\* a YM6! file that parses, and the files cut short of it
WholeYm6 == Ym5File(IdentYm6, 2, 1, 1, << <<16, 200, 130>> >>, DEFAULT_CHIPSET_FREQUENCY,
                    DEFAULT_FRAME_FREQUENCY, 1, 0)
CutFiles == {SubSeq(WholeYm6, 1, n) : n \in 0..Len(WholeYm6)}
\* a file of no known signature
OtherFiles == { << 89, 77, 55, 33 >> \o Body(14, 7) }
ParseFiles == Ym3Files \cup Ym4Files \cup Ym5Files \cup CutFiles \cup OtherFiles

\* no song yet: the fields of the song hold nothing
InitParse ==
  /\ arg \in ParseFiles
  /\ result = <<>>
  /\ version = "none"
  /\ frames = <<>>
  /\ loop_frame = 0
  /\ chipset_frequency = 0
  /\ frame_frequency = 0
  /\ dd_samples = [ym2bank |-> FALSE, data |-> <<>>]
  /\ dd_samples_ends = [i \in 1..MAX_DD_SAMPLES |-> 0]
  /\ PlayerInit

\* YmSong::parse_unpacked(rd, ..) on the file arg: the song of an Ok result
\* becomes the song of the state
ParseUnpacked ==
  /\ result = <<>>
  /\ \E r \in {parse_unpacked(arg)} :
       /\ result' = r
       /\ IF r.ok
            THEN /\ version' = r.song.version
                 /\ frames' = r.song.frames
                 /\ loop_frame' = r.song.loop_frame
                 /\ chipset_frequency' = r.song.chipset_frequency
                 /\ frame_frequency' = r.song.frame_frequency
                 /\ dd_samples' = r.song.dd_samples
                 /\ dd_samples_ends' = r.song.dd_samples_ends
            ELSE UNCHANGED song_vars
  /\ UNCHANGED << arg, cursor, voice_effects, buzzer, events, ret, played, dispatched,
                  ncalls, run, panicked, since_reset, hung >>

NextParse == ParseUnpacked

SpecParse == InitParse /\ [][NextParse]_vars

\* the file arg as its format lays it out: the signature, the size of a
\* YM2/YM3 body, the fields of a YM4+ header
Ident(b) == IF Len(b) >= 4 THEN SubSeq(b, 1, 4) ELSE <<>>
IsYm3File(b) == Ident(b) \in {IdentYm2, IdentYm3, IdentYm3b}
IsYm4File(b) == Ident(b) \in {IdentYm4, IdentYm5, IdentYm6} /\ Len(b) >= 12 /\ SubSeq(b, 5, 12) = LEONARD
IsYm5File(b) == IsYm4File(b) /\ Ident(b) # IdentYm4
BodySize(b) == Len(b) - 4
\* the big-endian field of n bytes at offset off of the file
RECURSIVE Field(_, _, _)
Field(b, off, n) == IF n = 0 THEN 0 ELSE Field(b, off, n - 1) * 256 + b[off + n]
HasField(b, off, n) == Len(b) >= off + n
Parsed == result # <<>>
NoSong == ~result.ok /\ version = "none" /\ frames = <<>>

\* C23: parsing never returns a song without frames: a YM2/YM3 body whose
\* size mod 14 is neither 0 nor 4 fails with InvalidData "wrong file size",
\* one of size 0 or 4 with "no YM data", and a YM4+ header with nframes = 0
\* with "no YM data"; no song comes of these.
C23_NoSongWithoutFrames ==
  Parsed =>
    /\ result.ok => Len(result.song.frames) >= 1 /\ frames = result.song.frames
    /\ (IsYm3File(arg) /\ BodySize(arg) % 14 \notin {0, 4}) =>
         result = InvalidData("wrong file size") /\ NoSong
    /\ (IsYm3File(arg) /\ BodySize(arg) \in {0, 4}) =>
         result = InvalidData("no YM data") /\ NoSong
    /\ (IsYm4File(arg) /\ HasField(arg, 12, 4) /\ Field(arg, 12, 4) = 0) =>
         result = InvalidData("no YM data") /\ NoSong

\* a YM3b file whose body is the loop frame alone was refused
C23_Witness ==
  /\ Parsed /\ Ident(arg) = IdentYm3b /\ BodySize(arg) = 4
  /\ result = InvalidData("no YM data") /\ NoSong

\* the fields of a YM5/YM6 header, which is 34 bytes long
HeaderWhole(b) == IsYm5File(b) /\ HasField(b, 32, 2)
HdrFrames(b) == Field(b, 12, 4)
HdrSamples(b) == Field(b, 20, 2)
HdrChipset(b) == Field(b, 22, 4)
HdrFrequency(b) == Field(b, 26, 2)
HdrReserved(b) == Field(b, 32, 2)
\* the header has one of the faults of the claim
HeaderFault(b) ==
  \/ HdrSamples(b) > 32
  \/ HdrChipset(b) = 0
  \/ HdrFrequency(b) = 0
  \/ HdrReserved(b) # 0
\* the message of the first check that fails, in the order of the parser
FaultMessage(b) ==
  IF HdrFrames(b) = 0 THEN "no YM data"
  ELSE IF HdrSamples(b) > 32 THEN "too many digi-drum samples"
  ELSE IF HdrChipset(b) = 0 THEN "chipset period must not be 0"
  ELSE IF HdrFrequency(b) = 0 THEN "frame period must not be 0"
  ELSE "unknown additional header data"

\* C24: a YM5/YM6 header with chipset_frequency = 0, frame_frequency = 0, a
\* reserved word that is not 0 or dd_nsamples > 32 fails with an InvalidData
\* error (whose message is that of the first failing check) and gives no
\* song; every parsed song has chipset_frequency > 0 and frame_frequency > 0.
C24_HeaderChecks ==
  Parsed =>
    /\ (HeaderWhole(arg) /\ HeaderFault(arg)) =>
         result = InvalidData(FaultMessage(arg)) /\ NoSong
    /\ result.ok =>
         /\ chipset_frequency > 0 /\ frame_frequency > 0
         /\ chipset_frequency = result.song.chipset_frequency
         /\ frame_frequency = result.song.frame_frequency
         /\ IsYm5File(arg) =>
              chipset_frequency = HdrChipset(arg) /\ frame_frequency = HdrFrequency(arg)

\* a YM6 header with frames, a chipset frequency and frame_frequency = 0 was
\* refused for its frame period
C24_Witness ==
  /\ Parsed /\ HeaderWhole(arg) /\ Ident(arg) = IdentYm6
  /\ HdrFrames(arg) > 0 /\ HdrSamples(arg) <= 32 /\ HdrChipset(arg) > 0
  /\ HdrFrequency(arg) = 0 /\ HdrReserved(arg) = 0
  /\ result = InvalidData("frame period must not be 0") /\ NoSong

\* the DIGI-DRUM block of a YM4+ file: where it starts, where the length of
\* sample k stands, the length of sample k, the length of samples 0..i
SamplesAt(b) == IF Ident(b) = IdentYm4 THEN 26 ELSE 34
RECURSIVE SampleOffset(_, _)
SampleOffset(b, k) ==
  IF k = 0 THEN SamplesAt(b)
  ELSE SampleOffset(b, k - 1) + 4 + Field(b, SampleOffset(b, k - 1), 4)
SampleLen(b, k) == Field(b, SampleOffset(b, k), 4)
RECURSIVE CumulativeLen(_, _)
CumulativeLen(b, i) == IF i < 0 THEN 0 ELSE CumulativeLen(b, i - 1) + SampleLen(b, i)

\* C25: after a parse of a YM4+ file with n <= 32 samples dd_samples_ends[i]
\* is the length of samples 0..i for i < n and 0 for i >= n; the entries are
\* non-decreasing where non-zero, none exceeds dd_samples.len(), and
\* sample_data_range(i) is a window of dd_samples or empty for every i < 32.
C25_SampleEnds ==
  (Parsed /\ result.ok /\ IsYm4File(arg)) =>
    /\ \A i \in 0..(MAX_DD_SAMPLES - 1) :
         /\ dd_samples_ends[i + 1] =
              (IF i < HdrSamples(arg) THEN CumulativeLen(arg, i) ELSE 0)
         /\ dd_samples_ends[i + 1] <= Len(dd_samples.data)
         /\ \/ RangeStart(i) >= RangeEnd(i)
            \/ RangeStart(i) >= 0 /\ RangeEnd(i) <= Len(dd_samples.data)
         /\ sample_data_range(i) = [ok |-> TRUE, start |-> RangeStart(i), end |-> RangeEnd(i)]
    /\ \A i, j \in 1..MAX_DD_SAMPLES :
         (i < j /\ dd_samples_ends[i] # 0 /\ dd_samples_ends[j] # 0) =>
           dd_samples_ends[i] <= dd_samples_ends[j]
    /\ Len(dd_samples.data) = CumulativeLen(arg, HdrSamples(arg) - 1)

\* a file with samples of 2, 0 and 1 bytes was parsed: the ends are 2, 2, 3
\* and then 0, and the range of sample 3 runs from 3 to 0
C25_Witness ==
  /\ Parsed /\ result.ok /\ IsYm4File(arg) /\ HdrSamples(arg) = 3
  /\ SubSeq(dd_samples_ends, 1, 4) = << 2, 2, 3, 0 >>
  /\ Len(dd_samples.data) = 3
  /\ RangeStart(3) = 3 /\ RangeEnd(3) = 0

\* the frame data of a file: where it starts, how many frames, how many
\* registers per frame, whether it is laid out register by register
FramesAt(b) ==
  IF IsYm3File(b) THEN 4 ELSE SampleOffset(b, HdrSamples(b)) + Len(MetaBlock)
FrameCount(b) == IF IsYm3File(b) THEN BodySize(b) \div 14 ELSE HdrFrames(b)
RegCount(b) == IF IsYm3File(b) THEN 14 ELSE 16
Interleaved(b) == IsYm3File(b) \/ Field(b, 16, 4) % 2 = 1
BodyWhole(b) == Len(b) >= FramesAt(b) + RegCount(b) * FrameCount(b)

\* C26: frame i of an interleaved body of nframes frames with R registers (14
\* for YM2/YM3, 16 for YM4+ with INTERLEAVED) has data[r] = body[r * nframes +
\* i] for r < R and 0 for R <= r < 16; frame i of a YM4+ body that is not
\* interleaved has data[r] = body[i * 16 + r].
C26_FrameLayout ==
  (Parsed /\ result.ok /\ BodyWhole(arg)) =>
    /\ Len(frames) = FrameCount(arg)
    /\ \A i \in 0..(FrameCount(arg) - 1) : \A r \in 0..15 :
         frames[i + 1][r + 1] =
           (IF r >= RegCount(arg) THEN 0
            ELSE IF Interleaved(arg) THEN arg[FramesAt(arg) + r * FrameCount(arg) + i + 1]
            ELSE arg[FramesAt(arg) + i * 16 + r + 1])

\* a YM3 file of two frames was parsed: register 1 of frame 0 is the third
\* byte of the body, not the second, and registers 14 and 15 are 0
C26_Witness ==
  /\ Parsed /\ result.ok /\ Ident(arg) = IdentYm3 /\ BodySize(arg) = 28
  /\ frames[1][2] = arg[7] /\ arg[7] # arg[6]
  /\ frames[2][1] = arg[6]
  /\ frames[1][15] = 0 /\ frames[1][16] = 0

(* ---- effects.rs: the SINUS_SID table and sinus_sid in f32 arithmetic ---- *)
\* (x.cos() * 0.5 + 0.5) as f32 arithmetic yields it for x = 2.0 * PI * n / 8,
\* n = 0..7, in units of 2^-25 (every one of the eight values is a multiple):
\* the f32 cosine of the f32 angle is -4.371139e-8 at n = 2 and 1.1924881e-8
\* at n = 6, so the sum is rounded to 0.5 - 2^-25 at n = 2 and to 0.5 at n = 6
CosHalf25 == << 33554432, 28640500, 16777215, 4913933, 0, 4913935, 16777216, 28640504 >>

\* number of bits of a natural number
RECURSIVE BitLen(_)
BitLen(x) == IF x = 0 THEN 0 ELSE 1 + BitLen(x \div 2)

\* the f32 product y * k of an f32 y = y25 * 2^-25 and a whole k < 256: the
\* exact product is rounded to 24 significant bits, ties to even. The
\* product is kept in two limbs of 12 bits so that no step leaves 32 bits.
\* The result is [m, d], the value m * 2^d * 2^-25.
F32Limbs(y25, k) ==
  [hi |-> (y25 \div 4096) * k + (((y25 % 4096) * k) \div 4096),
   lo |-> ((y25 % 4096) * k) % 4096]
F32Drop(p) ==
  IF p.hi = 0 THEN 0
  ELSE IF BitLen(p.hi) + 12 > 24 THEN BitLen(p.hi) + 12 - 24 ELSE 0
F32Kept(p, d) == p.hi * (2 ^ (12 - d)) + (p.lo \div (2 ^ d))
F32Nearest(p, d) ==
  IF d = 0 THEN F32Kept(p, 0)
  ELSE IF \/ (p.lo % (2 ^ d)) * 2 > 2 ^ d
          \/ (p.lo % (2 ^ d)) * 2 = 2 ^ d /\ F32Kept(p, d) % 2 = 1
         THEN F32Kept(p, d) + 1
         ELSE F32Kept(p, d)
F32Mul(y25, k) ==
  [m |-> F32Nearest(F32Limbs(y25, k), F32Drop(F32Limbs(y25, k))),
   d |-> F32Drop(F32Limbs(y25, k))]

\* f32::round of a value that is not negative, as u8: the nearest whole
\* number, a half rounded away from zero
F32Round(f) ==
  (f.m \div (2 ^ (25 - f.d))) + (IF (f.m % (2 ^ (25 - f.d))) * 2 >= 2 ^ (25 - f.d) THEN 1 ELSE 0)

\* the entry n of SINUS_SID as lazy_static computes it
SinusSidEntry(n) == F32Round(F32Mul(CosHalf25[n + 1], 255))

\* v0 of tests::sinus_sid_works: (y * vol as f32).round() as u8
SinusSidWorks(n, v) == F32Round(F32Mul(CosHalf25[n + 1], v))

\* round((cos(2 pi n / 8) * 0.5 + 0.5) * k) in exact arithmetic. The cosine
\* is 1, 0, -1, 0 at n = 0, 2, 4, 6 and +-sqrt(2)/2 at the odd n, where the
\* value (2 +- sqrt 2) k / 4 is never a tie: the result is the greatest r
\* with 4 r - 2 - 2 k <= +-sqrt(2) k.
AtMostRoot2(p, s, k) ==
  IF s = 1 THEN p <= 0 \/ p * p <= 2 * k * k
           ELSE p <= 0 /\ p * p >= 2 * k * k
ExactCos(n) == << 1, 0, -1, 0 >>[((n % 8) \div 2) + 1]
ExactRound(n, k) ==
  IF n % 2 = 0
    THEN ((2 + 2 * ExactCos(n)) * k + 2) \div 4
    ELSE CHOOSE r \in 0..k :
           /\ AtMostRoot2(4 * r - 2 - 2 * k, IF n % 8 \in {1, 7} THEN 1 ELSE -1, k)
           /\ ~AtMostRoot2(4 * (r + 1) - 2 - 2 * k, IF n % 8 \in {1, 7} THEN 1 ELSE -1, k)

(* ---- the pure functions applied to drawn inputs ---- *)
Phases == 0..(SINUS_SID_PERIOD - 1)
Amplitudes == 0..15
SinusInputs == [fn : {"sinus_sid"}, phase : Phases, amp : Amplitudes]

InitSinus ==
  /\ arg \in SinusInputs
  /\ result = <<>>
  /\ version = "none"
  /\ frames = <<>>
  /\ loop_frame = 0
  /\ chipset_frequency = 0
  /\ frame_frequency = 0
  /\ dd_samples = [ym2bank |-> FALSE, data |-> <<>>]
  /\ dd_samples_ends = [i \in 1..MAX_DD_SAMPLES |-> 0]
  /\ PlayerInit

\* sinus_sid(phase, vol) on the drawn phase and amplitude
SinusSid ==
  /\ result = <<>>
  /\ result' = [level |-> sinus_sid(arg.phase, arg.amp)]
  /\ UNCHANGED << song_vars, arg, cursor, voice_effects, buzzer, events, ret, played,
                  dispatched, ncalls, run, panicked, since_reset, hung >>

NextSinus == SinusSid

SpecSinus == InitSinus /\ [][NextSinus]_vars

RisingBelow(evs, limit) ==
  /\ \A i \in 1..Len(evs) : evs[i].t < limit
  /\ \A i \in 1..(Len(evs) - 1) : evs[i].t < evs[i + 1].t
\* the events of the last call that came from a timer of an earlier call:
\* the unit "by" of voice v emitted, and its first event is after t = 0
CarriedIn(by, v) ==
  /\ since_reset >= 2
  /\ Len(UnitEvents(events, by, v)) >= 2
  /\ UnitEvents(events, by, v)[1].t > 0

\* C28: in every call every effect unit that is active (SidVoice, SinusSid,
\* DigiDrum on each voice, the SyncBuzzer) yields a finite sequence of events
\* whose timestamps are strictly increasing and all below the limit
\* frame_cycles, whatever the earlier frames left in its timer.
C28_UnitEventsRising ==
  /\ ~hung
  /\ \A v \in 0..2 : \A by \in {"sv", "ss", "dd"} :
       RisingBelow(UnitEvents(events, by, v), frame_cycles)
  /\ RisingBelow(BuzzerTicks(events), frame_cycles)

\* a SID voice went on in a later call from the timer value the call before
\* left: its first event is after t = 0 and a second one follows
C28_Witness == \E v \in 0..2 : CarriedIn("sv", v)

(* ---- effects.rs: a Timer driven frame after frame ---- *)
\* the limits, steps and start values drawn: steps that divide a limit, steps
\* that do not, steps above the limit and above twice the limit, start values
\* below, at and above the limit
TimerLimits == {6, 10}
TimerSteps == {1, 2, 3, 5, 7, 13, 25}
TimerCurrents == {0, 1, 4, 10, 12}
TimerInputs == [fn : {"timer"}, current : TimerCurrents, step : TimerSteps, limit : TimerLimits]

\* result holds the timer, the number of frames it went through (nframes), how
\* many of them by fast_forward (skipped), the timer before the last frame
\* (before), what the last frame yielded (ticks: the timestamps of the
\* iterator, count: the return value of fast_forward) and every timestamp
\* yielded so far on the axis frame index * limit + t (axis)
InitTimer ==
  /\ arg \in TimerInputs
  /\ result = [timer |-> set_step([TimerDefault EXCEPT !.current = arg.current], arg.step),
               nframes |-> 0, skipped |-> 0, before |-> TimerDefault,
               ticks |-> <<>>, count |-> 0, axis |-> <<>>, op |-> "new"]
  /\ version = "none"
  /\ frames = <<>>
  /\ loop_frame = 0
  /\ chipset_frequency = 0
  /\ frame_frequency = 0
  /\ dd_samples = [ym2bank |-> FALSE, data |-> <<>>]
  /\ dd_samples_ends = [i \in 1..MAX_DD_SAMPLES |-> 0]
  /\ PlayerInit

\* TimerIter::new(&mut timer, limit) driven to its first None
IterFrame ==
  /\ result.nframes < MaxCalls
  /\ \E r \in {TimerIterRun(result.timer, arg.limit, MaxTicks)} :
       result' = [result EXCEPT
                    !.timer = r.timer, !.nframes = @ + 1, !.before = result.timer,
                    !.ticks = r.ticks, !.count = 0, !.op = "iter",
                    !.axis = @ \o [i \in 1..Len(r.ticks) |-> result.nframes * arg.limit + r.ticks[i]]]
  /\ UNCHANGED << song_vars, arg, cursor, voice_effects, buzzer, events, ret, played,
                  dispatched, ncalls, run, panicked, since_reset, hung >>

\* timer.fast_forward(limit)
FastForward ==
  /\ result.nframes < MaxCalls
  /\ \E r \in {fast_forward(result.timer, arg.limit)} :
       result' = [result EXCEPT
                    !.timer = r.timer, !.nframes = @ + 1, !.skipped = @ + 1,
                    !.before = result.timer, !.ticks = <<>>, !.count = r.ticks,
                    !.op = "fast_forward"]
  /\ UNCHANGED << song_vars, arg, cursor, voice_effects, buzzer, events, ret, played,
                  dispatched, ncalls, run, panicked, since_reset, hung >>

NextTimer == IterFrame \/ FastForward

SpecTimer == InitTimer /\ [][NextTimer]_vars

\* the frames so far were all iterated to exhaustion
AllIterated == result.nframes >= 1 /\ result.skipped = 0

\* C29: for a timer iterated to exhaustion frame after frame with one step
\* and one limit, (a) the value left in current after a frame is the first
\* tick time >= limit of that frame, less limit; (b) the ticks on the axis
\* frame index * limit + t are current0, current0 + step, current0 + 2 step,
\* ..., none missing up to the end of the last frame and none twice; (c)
\* current is never negative.
C29_CarryOverKeepsPhase ==
  AllIterated =>
    /\ result.timer.current = result.before.current + Len(result.ticks) * arg.step - arg.limit
    /\ result.before.current + Len(result.ticks) * arg.step >= arg.limit
    /\ Len(result.ticks) > 0 =>
         result.before.current + (Len(result.ticks) - 1) * arg.step < arg.limit
    /\ \A k \in 1..Len(result.axis) : result.axis[k] = arg.current + (k - 1) * arg.step
    /\ arg.current + Len(result.axis) * arg.step >= result.nframes * arg.limit
    /\ result.timer.current >= 0

\* a second frame that began with a carried value above 0, yielded several
\* ticks and again left a value above 0
C29_Witness ==
  /\ AllIterated
  /\ result.nframes >= 2
  /\ result.before.current > 0
  /\ Len(result.ticks) >= 2
  /\ result.timer.current > 0

\* what exhausting the iterator on the timer before the last frame leaves
Exhausted == TimerIterRun(result.before, arg.limit, MaxTicks)

\* C30: for every timer (current >= 0, step above epsilon) and every limit,
\* fast_forward(limit) leaves current at the value that exhausting the
\* iterator with that limit would leave and returns the number of timestamps
\* the iterator would have yielded, also when limit - current is a multiple
\* of step and when current >= limit.
C30_FastForwardAsIterator ==
  result.op = "fast_forward" =>
    /\ result.timer.current = Exhausted.timer.current
    /\ result.count = Len(Exhausted.ticks)

\* frame f asks for SidVoice::reset on voice v: the restart bit of byte 1 in
\* a YM4/YM5 frame whose timer 0 has a divisor
RestartsSid(f, v) ==
  /\ version \in {"Ym4", "Ym5"}
  /\ ts_channel(fx0(f)).chan = v
  /\ ts_channel(fx0(f)).reset_sid
  /\ timer_divisor0(f) # 0
\* the SID voice events of voice v among evs go on from the toggle phase c
\* with the volume x: vol when the phase is FALSE, 0 when it is TRUE, the
\* phase changing with every event
SidAlternates(evs, v, c, x) ==
  \A i \in 1..Len(UnitEvents(evs, "sv", v)) :
    UnitEvents(evs, "sv", v)[i].val = IF Toggled(c, i - 1) THEN 0 ELSE x

\* C31: when two consecutive frames start the SID voice of voice v, the
\* events of the second frame go on where the first one stopped, in time
\* (first event at the timer value carried over) and in phase (0 after vol,
\* vol after 0, alternating), unless the second frame sets the restart bit:
\* then its first event is at t = 0 and carries vol.
C31_SidVoiceAlternates ==
  [][\A v \in 0..2 :
       (/\ NextFrameStep /\ ~panicked'
        /\ <<"SidVoice", v>> \in dispatched.started
        /\ <<"SidVoice", v>> \in dispatched'.started) =>
         IF RestartsSid(frames[cursor + 1], v)
           THEN /\ SidAlternates(events', v, FALSE, VolByte(frames[cursor + 1], v) % 16)
                /\ UnitEvents(events', "sv", v)[1].t = 0
                /\ voice_effects'[v].sv.cur = Toggled(FALSE, Len(UnitEvents(events', "sv", v)))
           ELSE /\ SidAlternates(events', v, voice_effects[v].sv.cur, VolByte(frames[cursor + 1], v) % 16)
                /\ UnitEvents(events', "sv", v) # <<>> =>
                     UnitEvents(events', "sv", v)[1].t = voice_effects[v].sv.timer.current
                /\ voice_effects'[v].sv.cur =
                     Toggled(voice_effects[v].sv.cur, Len(UnitEvents(events', "sv", v)))]_vars

\* a second frame whose SID voice, started again without the restart bit on a
\* volume above 0, begins after t = 0 with the value 0
C31_Witness ==
  \E v \in 0..2 :
    /\ since_reset >= 2
    /\ <<"SidVoice", v>> \in dispatched.started
    /\ ~RestartsSid(LastFrame, v)
    /\ dispatched.ve[v].sv.vol > 0
    /\ UnitEvents(events, "sv", v) # <<>>
    /\ UnitEvents(events, "sv", v)[1].t > 0
    /\ UnitEvents(events, "sv", v)[1].val = 0

\* the SID voice of voice v as the call left it after its version dispatch,
\* and what iter_frame would have left of it had it been active
DormantSid(d, v) == d.ve[v].sv
HadItRun(d, v) ==
  SidVoiceIterFrame([DormantSid(d, v) EXCEPT !.active = TRUE], frame_cycles, VOL_A_REG + v).unit

\* C32: a SID voice that has a step and is inactive during a frame has after
\* the frame the timer and the toggle phase it would have had, had it been
\* active with the same step during that frame.
C32_InactiveSidCoherent ==
  [][\A v \in 0..2 :
       (/\ ncalls' = ncalls + 1 /\ ~panicked'
        /\ ~DormantSid(dispatched', v).active
        /\ DormantSid(dispatched', v).timer.step > 0) =>
         /\ voice_effects'[v].sv.timer = HadItRun(dispatched', v).timer
         /\ voice_effects'[v].sv.cur = HadItRun(dispatched', v).cur]_vars

\* the Sinus SID events of voice v among evs
SinusEvents(evs, v) == UnitEvents(evs, "ss", v)
\* the level of amplitude a at phase p, from the table
SinusLevel(p, a) == (SINUS_SID[(p % 8) + 1] * a + 127) \div 255

\* C33: the i-th Sinus SID event of a call on voice v carries
\* (SINUS_SID[phase] * amplitude + 127) / 255 for the phase the call found
\* advanced i - 1 times modulo 8; after the call the phase is the one found
\* advanced once per event, so a call without Sinus SID events and reset()
\* leave it alone; every value lies in 0..amplitude and amplitude <= 15.
C33_SinusSidPhase ==
  [][\A v \in 0..2 :
       /\ (ncalls' = ncalls + 1 /\ ~panicked') =>
            /\ \A i \in 1..Len(SinusEvents(events', v)) :
                 /\ SinusEvents(events', v)[i].val =
                      SinusLevel(voice_effects[v].ss.phase + i - 1, VolByte(frames[cursor + 1], v) % 16)
                 /\ SinusEvents(events', v)[i].val \in 0..(VolByte(frames[cursor + 1], v) % 16)
            /\ voice_effects'[v].ss.phase =
                 (voice_effects[v].ss.phase + Len(SinusEvents(events', v))) % 8
       /\ ncalls' = ncalls => voice_effects'[v].ss.phase = voice_effects[v].ss.phase
       /\ voice_effects'[v].ss.amplitude <= 15]_vars

\* a later call whose Sinus SID went on from a phase other than 0 with an
\* amplitude above 0 and left yet another phase
C33_Witness ==
  \E v \in 0..2 :
    /\ since_reset >= 2
    /\ dispatched.ve[v].ss.phase # 0
    /\ dispatched.ve[v].ss.amplitude > 0
    /\ Len(SinusEvents(events, v)) >= 2
    /\ voice_effects[v].ss.phase # dispatched.ve[v].ss.phase

\* the number of ticks a timer at c with the step st has below frame_cycles
TicksIn(c, st) == IF c >= frame_cycles THEN 0 ELSE ((frame_cycles - c - 1) \div st) + 1
\* the DIGI-DRUM events of voice v among evs
DrumEvents(evs, v) == UnitEvents(evs, "dd", v)
\* after its version dispatch the call d has on voice v a DigiDrum with
\* samples left and neither SID voice nor Sinus SID
DrumPlays(d, v) ==
  /\ DigiDrumIsActive(d.ve[v].dd)
  /\ d.ve[v].dd.end <= DdLen
  /\ ~d.ve[v].sv.active
  /\ ~d.ve[v].ss.active
DrumLeft(d, v) == d.ve[v].dd.end - d.ve[v].dd.cur
DrumTicks(d, v) == TicksIn(d.ve[v].dd.timer.current, d.ve[v].dd.timer.step)

\* C34: a DigiDrum with fewer samples left than its timer has ticks in the
\* frame emits them, then one more event at the next tick with the value
\* frame.vol(voice) of the frame, and nothing after it; it is inactive after
\* the frame and its timer is 0. A DigiDrum with exactly as many samples left
\* as ticks emits the samples only and is inactive after the frame.
C34_DigiDrumEnd ==
  [][\A v \in 0..2 :
       (ncalls' = ncalls + 1 /\ ~panicked' /\ DrumPlays(dispatched', v)) =>
         /\ DrumLeft(dispatched', v) < DrumTicks(dispatched', v) =>
              /\ Len(DrumEvents(events', v)) = DrumLeft(dispatched', v) + 1
              /\ \A i \in 1..DrumLeft(dispatched', v) :
                   DrumEvents(events', v)[i].val = DdAt(dispatched'.ve[v].dd.cur + i - 1)
              /\ DrumEvents(events', v)[DrumLeft(dispatched', v) + 1].val =
                   VolByte(frames[cursor + 1], v) % 32
              /\ DrumEvents(events', v)[DrumLeft(dispatched', v) + 1].t =
                   dispatched'.ve[v].dd.timer.current
                     + DrumLeft(dispatched', v) * dispatched'.ve[v].dd.timer.step
              /\ ~DigiDrumIsActive(voice_effects'[v].dd)
              /\ voice_effects'[v].dd.timer.current = 0
         /\ DrumLeft(dispatched', v) = DrumTicks(dispatched', v) =>
              /\ Len(DrumEvents(events', v)) = DrumLeft(dispatched', v)
              /\ \A i \in 1..DrumLeft(dispatched', v) :
                   DrumEvents(events', v)[i].val = DdAt(dispatched'.ve[v].dd.cur + i - 1)
              /\ ~DigiDrumIsActive(voice_effects'[v].dd)]_vars

\* a call in which one DigiDrum ended before the ticks of the frame did, its
\* last event carrying the volume byte of the frame
C34_Witness ==
  \E v \in 0..2 :
    /\ DrumPlays(dispatched, v)
    /\ DrumLeft(dispatched, v) < DrumTicks(dispatched, v)
    /\ Len(DrumEvents(events, v)) = DrumLeft(dispatched, v) + 1
    /\ DrumEvents(events, v)[Len(DrumEvents(events, v))].val = VolByte(LastFrame, v) % 32
    /\ DrumEvents(events, v)[Len(DrumEvents(events, v))].t > 0

\* how many samples the DigiDrum of voice v emits in the call d: one per tick
\* of the frame while samples are left
DrumShare(d, v) == Min(DrumLeft(d, v), DrumTicks(d, v))

\* C35: a call that does not start the DigiDrum of voice v finds it as the
\* call before left it; a call that starts it sets its timer to 0; and an
\* unshadowed DigiDrum emits in a call the samples dd_samples[cur],
\* dd_samples[cur + 1], ... one per timer tick (the first at the timer value,
\* which is 0 in the starting frame) and leaves cur at the sample after the
\* last one emitted: over the frames every sample of [start, end) comes once
\* and in index order.
C35_DigiDrumInOrder ==
  [][\A v \in 0..2 :
       (ncalls' = ncalls + 1 /\ ~panicked') =>
         /\ <<"DigiDrum", v>> \notin dispatched'.started =>
              dispatched'.ve[v].dd = voice_effects[v].dd
         /\ <<"DigiDrum", v>> \in dispatched'.started =>
              dispatched'.ve[v].dd.timer.current = 0
         /\ DrumPlays(dispatched', v) =>
              /\ Len(DrumEvents(events', v)) >= DrumShare(dispatched', v)
              /\ \A i \in 1..DrumShare(dispatched', v) :
                   /\ DrumEvents(events', v)[i].val = DdAt(dispatched'.ve[v].dd.cur + i - 1)
                   /\ DrumEvents(events', v)[i].t =
                        dispatched'.ve[v].dd.timer.current
                          + (i - 1) * dispatched'.ve[v].dd.timer.step
              /\ voice_effects'[v].dd.cur =
                   dispatched'.ve[v].dd.cur + DrumShare(dispatched', v)
              /\ voice_effects'[v].dd.end = dispatched'.ve[v].dd.end]_vars

\* a later call that did not start the DigiDrum of a voice and emitted the
\* rest of the sample the call before had begun, up to its last value
C35_Witness ==
  \E v \in 0..2 :
    /\ since_reset >= 2
    /\ StartedOn(dispatched, v) = {}
    /\ DrumPlays(dispatched, v)
    /\ dispatched.ve[v].dd.cur > 0
    /\ DrumShare(dispatched, v) >= 2
    /\ voice_effects[v].dd.cur = dispatched.ve[v].dd.end

(* ---- effects.rs: the Mixer on drawn sources ---- *)
\* Mixer { iters: ArrayVec<_, 4> }: three voices and the buzzer
MIXER_SOURCES == 4
\* the timestamps a source yields: none, one or two, rising or not
MixerTimes == {0, 1, 2}
SourceTimes ==
  {<<>>} \cup {<< a >> : a \in MixerTimes} \cup {<< a, b >> : a, b \in MixerTimes}
\* the sources in insertion order: the event i of source p is (t, reg p, val i)
Tagged(ts) == [p \in 1..Len(ts) |-> [i \in 1..Len(ts[p]) |-> Ev(ts[p][i], p, i, "src")]]

InitMixer ==
  /\ \E k \in 0..MIXER_SOURCES : \E ts \in [1..k -> SourceTimes] : arg = Tagged(ts)
  /\ result = [out |-> <<>>, done |-> FALSE]
  /\ version = "none"
  /\ frames = <<>>
  /\ loop_frame = 0
  /\ chipset_frequency = 0
  /\ frame_frequency = 0
  /\ dd_samples = [ym2bank |-> FALSE, data |-> <<>>]
  /\ dd_samples_ends = [i \in 1..MAX_DD_SAMPLES |-> 0]
  /\ PlayerInit

\* for (ts, reg, val) in mixer { .. } on the sources arg
MixerCollect ==
  /\ ~result.done
  /\ result' = [out |-> MixerRun(arg), done |-> TRUE]
  /\ UNCHANGED << song_vars, arg, cursor, voice_effects, buzzer, events, ret, played,
                  dispatched, ncalls, run, panicked, since_reset, hung >>

NextMixer == MixerCollect

SpecMixer == InitMixer /\ [][NextMixer]_vars

\* the events of source p in the merged output, and whether a sequence of
\* events has non-decreasing timestamps
FromSource(out, p) == SelectSeq(out, LAMBDA e : e.reg = p)
NonDecreasing(evs) == \A i \in 1..(Len(evs) - 1) : evs[i].t <= evs[i + 1].t
SourcesSorted == \A p \in 1..Len(arg) : NonDecreasing(arg[p])

\* C36: the Mixer output holds the events of every source once and in the
\* order of the source, and nothing else (it ends when all sources are
\* spent); when every source is non-decreasing in time the output is
\* non-decreasing, and of two events with one timestamp from different
\* sources the one of the source inserted first comes first.
C36_StableMerge ==
  result.done =>
    /\ \A p \in 1..Len(arg) : FromSource(result.out, p) = arg[p]
    /\ Len(result.out) = SumLen(arg)
    /\ SourcesSorted =>
         /\ NonDecreasing(result.out)
         /\ \A i, j \in 1..Len(result.out) :
              (i < j /\ result.out[i].t = result.out[j].t) =>
                result.out[i].reg <= result.out[j].reg

\* four sorted sources merged, with a tie between the first and the last one
\* and an event of the last source ahead of one of the first
C36_Witness ==
  /\ result.done
  /\ Len(arg) = MIXER_SOURCES
  /\ SourcesSorted
  /\ \E i, j \in 1..Len(result.out) :
       /\ i < j /\ result.out[i].t = result.out[j].t
       /\ result.out[i].reg = 1 /\ result.out[j].reg = MIXER_SOURCES
  /\ \E i, j \in 1..Len(result.out) :
       /\ i < j /\ result.out[i].reg = MIXER_SOURCES /\ result.out[j].reg = 1

\* the events of the last call that an effect unit produced
EffectLabels == {"sv", "ss", "dd", "bz"}
EffectIdx == {i \in EvIdx : events[i].by \in EffectLabels}
\* the step of the unit that produced the effect event e, after the dispatch
StepOf(e) ==
  CASE e.by = "bz" -> dispatched.bz.timer.step
    [] e.by = "sv" -> dispatched.ve[e.reg - VOL_A_REG].sv.timer.step
    [] e.by = "ss" -> dispatched.ve[e.reg - VOL_A_REG].ss.timer.step
    [] e.by = "dd" -> dispatched.ve[e.reg - VOL_A_REG].dd.timer.step
\* the timer value of that unit after the dispatch
CurrentOf(e) ==
  CASE e.by = "bz" -> dispatched.bz.timer.current
    [] e.by = "sv" -> dispatched.ve[e.reg - VOL_A_REG].sv.timer.current
    [] e.by = "ss" -> dispatched.ve[e.reg - VOL_A_REG].ss.timer.current
    [] e.by = "dd" -> dispatched.ve[e.reg - VOL_A_REG].dd.timer.current
\* the first event of its unit in the last call
FirstOfUnit(i) ==
  \A j \in EffectIdx : (events[j].by = events[i].by /\ events[j].reg = events[i].reg) => i <= j

ShadowNibbles == {1, 2, 5, 9}

\* YmSong::new for a three-frame YM4+ song: the first frame starts sample 0
\* (7 values, 4 per frame) on voice A, the middle frame asks for the effect
\* of its nibble and for no DIGI-DRUM, the last frame asks for nothing
InitShadow ==
  /\ version \in {"Ym4", "Ym5", "Ym6"}
  /\ \E n0 \in ShadowNibbles : \E c0 \in FxCounts :
       frames = << FrameLong, FxFrame(n0, 0, c0, 0), FrameQuiet >>
  /\ loop_frame \in LoopFrames
  /\ chipset_frequency \in
       IF version \in {"Ym5", "Ym6"} THEN ChipsetFrequencies ELSE {DEFAULT_CHIPSET_FREQUENCY}
  /\ frame_frequency = DEFAULT_FRAME_FREQUENCY
  /\ dd_samples = [ym2bank |-> FALSE, data |-> SampleData(FxBank)]
  /\ dd_samples_ends = SampleEnds(FxBank)
  /\ PlayerInit
  /\ arg = <<>>
  /\ result = <<>>

SpecShadow == InitShadow /\ [][Next]_vars

\* after its version dispatch the call d has on voice v a DigiDrum in
\* mid-sample and a SID voice or a Sinus SID
Shadowed(d, v) ==
  /\ DigiDrumIsActive(d.ve[v].dd)
  /\ d.ve[v].sv.active \/ d.ve[v].ss.active

C38_ShadowFrame ==
  /\ since_reset >= 2 /\ played = 1
  /\ Shadowed(dispatched, 0)
  /\ voice_effects[0].dd = dispatched.ve[0].dd
  /\ voice_effects[0].dd.cur = 4
  /\ DrumEvents(events, 0) = <<>>


\* the sample a DIGI-DRUM request of frame f on voice v names (YM4+)
SampleOf(f, v) == VolByte(f, v) % 32
\* the number of events of a DigiDrum restarted with the range [a, b) and the
\* step st that are sample values
FirstValues(a, b, st) == Min(b - a, TicksIn(0, st))

\* C39: a frame of a YM4+ song that requests DIGI-DRUM on a voice, whether the
\* DigiDrum of the voice is still playing or not, leaves it after the request
\* with the timer at 0, cur at the start of the sample the frame names and
\* end at its end; unless a SID voice or a Sinus SID is on the voice, the
\* frame's DigiDrum events begin with the first values of that sample, the
\* first one at t = 0, so consecutive frames requesting the same sample each
\* emit its first values again; when the sample is unused (end offset 0 or
\* an empty range) the DigiDrum is inactive and emits nothing.
C39_DigiDrumRestart ==
  [][\A v \in 0..2 :
       ( /\ ncalls' = ncalls + 1 /\ ~panicked'
         /\ version \in {"Ym4", "Ym5", "Ym6"}
         /\ <<"DigiDrum", v>> \in dispatched'.started ) =>
         /\ dispatched'.ve[v].dd.timer.current = 0
         /\ dispatched'.ve[v].dd.cur = RangeStart(SampleOf(frames[cursor + 1], v))
         /\ dispatched'.ve[v].dd.end = RangeEnd(SampleOf(frames[cursor + 1], v))
         /\ DrumPlays(dispatched', v) =>
              /\ Len(DrumEvents(events', v)) >=
                   FirstValues(dispatched'.ve[v].dd.cur, dispatched'.ve[v].dd.end,
                               dispatched'.ve[v].dd.timer.step)
              /\ DrumEvents(events', v)[1].t = 0
              /\ \A i \in 1..FirstValues(dispatched'.ve[v].dd.cur, dispatched'.ve[v].dd.end,
                                         dispatched'.ve[v].dd.timer.step) :
                   /\ DrumEvents(events', v)[i].val =
                        DdAt(RangeStart(SampleOf(frames[cursor + 1], v)) + i - 1)
                   /\ DrumEvents(events', v)[i].t =
                        (i - 1) * dispatched'.ve[v].dd.timer.step
         /\ RangeEnd(SampleOf(frames[cursor + 1], v))
              <= RangeStart(SampleOf(frames[cursor + 1], v)) =>
              /\ ~DigiDrumIsActive(dispatched'.ve[v].dd)
              /\ ~DigiDrumIsActive(voice_effects'[v].dd)
              /\ DrumEvents(events', v) = <<>>]_vars

\* the second or a later call on a song that replays one frame requesting a
\* sample longer than the frame has ticks: the call before left the DigiDrum
\* of the voice playing, as this one does, and this one emitted the first
\* values of the sample again from t = 0
C39_Witness ==
  \E v \in 0..2 :
    /\ since_reset >= 2 /\ Len(frames) = 1
    /\ <<"DigiDrum", v>> \in dispatched.started
    /\ DrumPlays(dispatched, v)
    /\ DigiDrumIsActive(voice_effects[v].dd)
    /\ voice_effects[v].dd.timer.current > 0
    /\ Len(DrumEvents(events, v)) >= 2
    /\ DrumEvents(events, v)[1] =
         Ev(0, VOL_A_REG + v, DdAt(RangeStart(SampleOf(LastFrame, v))), "dd")
    /\ DrumEvents(events, v)[2].val = DdAt(RangeStart(SampleOf(LastFrame, v)) + 1)

\* a request naming a sample the bank of the song does not have
C39_UnusedSample ==
  \E v \in 0..2 :
    /\ played >= 0
    /\ <<"DigiDrum", v>> \in dispatched.started
    /\ dd_samples.data # <<>>
    /\ RangeEnd(SampleOf(LastFrame, v)) = 0
    /\ ~DigiDrumIsActive(voice_effects[v].dd)
    /\ DrumEvents(events, v) = <<>>


(* ---- YM4+ files cut inside the frame block ---- *)
\* two-frame YM4!, YM5! and YM6! files, interleaved (attribute word 1) and
\* not (0), that parse
WholeFiles ==
  {Ym4File(2, a, 1, << <<16, 200, 130>> >>, 1) : a \in {0, 1}}
    \cup {Ym5File(id, 2, a, 1, << <<16, 200, 130>> >>, DEFAULT_CHIPSET_FREQUENCY,
                  DEFAULT_FRAME_FREQUENCY, 1, 0) : id \in {IdentYm5, IdentYm6}, a \in {0, 1}}
\* each of them cut anywhere from the first byte of the frame block on, the
\* whole file included
FrameCuts == UNION {{SubSeq(w, 1, n) : n \in FramesAt(w)..Len(w)} : w \in WholeFiles}

InitCut ==
  /\ arg \in FrameCuts
  /\ result = <<>>
  /\ version = "none"
  /\ frames = <<>>
  /\ loop_frame = 0
  /\ chipset_frequency = 0
  /\ frame_frequency = 0
  /\ dd_samples = [ym2bank |-> FALSE, data |-> <<>>]
  /\ dd_samples_ends = [i \in 1..MAX_DD_SAMPLES |-> 0]
  /\ PlayerInit

SpecCut == InitCut /\ [][NextParse]_vars

\* the file has fewer than nframes * 16 bytes after its header, samples and
\* meta data
FrameBlockShort(b) == IsYm4File(b) /\ ~BodyWhole(b)

\* C40: parsing a YM4/YM5/YM6 file whose frame block is shorter than
\* nframes * 16 bytes fails with an unexpected-eof error and gives no song,
\* whether the frames are interleaved or not.
C40_TruncatedRefused ==
  (Parsed /\ FrameBlockShort(arg)) =>
    /\ ~result.ok
    /\ result.kind = "UnexpectedEof"
    /\ NoSong

\* the half of C40 that holds: a frame block that is not interleaved and is
\* cut short is refused with unexpected-eof
C40_PlainRefused ==
  (Parsed /\ FrameBlockShort(arg) /\ ~Interleaved(arg)) =>
    result = Eof /\ NoSong

\* an interleaved frame block cut short was accepted: the song has the
\* frames of the header, and a register whose byte the file does not have is 0
C40_ZeroFilled ==
  /\ Parsed /\ FrameBlockShort(arg) /\ Interleaved(arg)
  /\ result.ok /\ Len(frames) = HdrFrames(arg)
  /\ Len(arg) > FramesAt(arg)
  /\ frames[1][1] = arg[FramesAt(arg) + 1]
  /\ frames[Len(frames)][16] = 0

====
